---- MODULE Spec2Model ----
(***************************************************************************)
(* Model of ScheduleAnalyzer (src/schedule_analyzer/ScheduleAnalyzer.py):  *)
(* the calendar store, the busy-interval extractor with its cache, the     *)
(* availability resolver, the date validity filter and the four searches.  *)
(*                                                                         *)
(* Encodings                                                               *)
(*   datetime.time  -> minutes since midnight, MkTime(hour, minute)        *)
(*   datetime.date  -> <<year, month, day>>                                *)
(*   a day label "Пт, 28 февраля" -> <<"Pt", 28, "fevralya">>; a label     *)
(*     that is not of the form "x, d m" -> BadLabel                        *)
(*   a lesson -> the value of its 'time' key: "HH:MM-HH:MM" ->             *)
(*     <<HH, MM, HH, MM>>, an unparseable string -> BadTimeStr, a missing  *)
(*     or empty one -> NoTimeStr                                           *)
(*   a dict keyed by dates or indices -> a function on the set of keys     *)
(*   None -> NoDeadline, NoneIndices, NotFound where the code allows it    *)
(***************************************************************************)
EXTENDS Integers, Sequences, FiniteSets, TLC

VARIABLES schedules,         \* self.schedules: list of calendars
          holiday_calendar,  \* self.holiday_calendar: the dates the region calendar holds
          custom_holidays,   \* self.custom_holidays: set of <<day, month>>
          busy_cache,        \* self._busy_intervals: schedule index -> (date -> intervals)
          call,              \* the call made on the analyzer (NoCall before it)
          ret,               \* what that call returned
          threads,           \* the searches that run concurrently: thread -> frame
          retry,             \* the frame of _api_call_with_retry
          transfer           \* a ScheduleToYouGile object and what it created in YouGile

vars == <<schedules, holiday_calendar, custom_holidays, busy_cache, call, ret,
          threads, retry, transfer>>

\* No search thread runs, no API call is being retried, no transfer object exists
NoThreads == <<>>
NoRetry == [status |-> "none"]
NoTransfer == [op |-> "none"]

\* The analyzer is used from one thread and apart from the YouGile transfer
OnlyAnalyzer ==
    /\ threads = NoThreads
    /\ retry = NoRetry
    /\ transfer = NoTransfer

-----------------------------------------------------------------------------
(* datetime.time and datetime.date, as the code uses them *)

MkTime(hour, minute) == hour * 60 + minute
HourOf(t) == t \div 60
MinuteOf(t) == t % 60
\* datetime.time(hour, minute) raises ValueError outside 0..23 / 0..59
ValidTime(hour, minute) == hour \in 0..23 /\ minute \in 0..59

IsLeap(y) == (y % 4 = 0) /\ ((y % 100 # 0) \/ (y % 400 = 0))

DaysInMonth(y, m) ==
    IF m = 2 THEN (IF IsLeap(y) THEN 29 ELSE 28)
    ELSE IF m \in {4, 6, 9, 11} THEN 30 ELSE 31

\* datetime.date(y, m, d) raises ValueError unless this holds
ValidDate(y, m, d) == m \in 1..12 /\ d >= 1 /\ d <= DaysInMonth(y, m)

RECURSIVE DaysBeforeMonth(_, _)
DaysBeforeMonth(y, m) ==
    IF m <= 1 THEN 0 ELSE DaysBeforeMonth(y, m - 1) + DaysInMonth(y, m - 1)

\* date.toordinal(): 1 for 0001-01-01
ToOrdinal(date) ==
    LET y == date[1] - 1
    IN  y * 365 + (y \div 4) - (y \div 100) + (y \div 400)
        + DaysBeforeMonth(date[1], date[2]) + date[3]

\* date.weekday(): Monday is 0
Weekday(date) == (ToOrdinal(date) + 6) % 7

\* date + datetime.timedelta(days=1)
NextDay(date) ==
    IF date[3] < DaysInMonth(date[1], date[2]) THEN <<date[1], date[2], date[3] + 1>>
    ELSE IF date[2] < 12 THEN <<date[1], date[2] + 1, 1>>
    ELSE <<date[1] + 1, 1, 1>>

\* date + datetime.timedelta(days=n), n >= 0
RECURSIVE AddDays(_, _)
AddDays(date, n) == IF n <= 0 THEN date ELSE AddDays(NextDay(date), n - 1)

\* date comparison
DateLT(a, b) ==
    \/ a[1] < b[1]
    \/ a[1] = b[1] /\ a[2] < b[2]
    \/ a[1] = b[1] /\ a[2] = b[2] /\ a[3] < b[3]
DateGT(a, b) == DateLT(b, a)

-----------------------------------------------------------------------------
(* Parsing of day labels and lesson times *)

BaseYear == 2025            \* self.year

\* ScheduleAnalyzer.MONTHS (the Russian genitive month names, transliterated)
MONTHS ==
    [n \in {"yanvarya", "fevralya", "marta", "aprelya", "maya", "iyunya", "iyulya",
            "avgusta", "sentyabrya", "oktyabrya", "noyabrya", "dekabrya"} |->
        CASE n = "yanvarya" -> 1 [] n = "fevralya" -> 2 [] n = "marta" -> 3
          [] n = "aprelya" -> 4 [] n = "maya" -> 5 [] n = "iyunya" -> 6
          [] n = "iyulya" -> 7 [] n = "avgusta" -> 8 [] n = "sentyabrya" -> 9
          [] n = "oktyabrya" -> 10 [] n = "noyabrya" -> 11 [] n = "dekabrya" -> 12]

ValueError == <<"ValueError">>      \* the parse raised ValueError
BadLabel == <<"bad label">>         \* a label that does not split into "x, d m"
BadTimeStr == <<"bad time">>        \* a time string that does not parse
NoTimeStr == <<>>                   \* 'time' missing, None or '': the lesson is skipped

\* _parse_date: "x, d m" -> date(self.year, MONTHS[m], d); ValueError otherwise
_parse_date(date_str) ==
    IF Len(date_str) # 3 THEN ValueError
    ELSE IF date_str[3] \notin DOMAIN MONTHS THEN ValueError
    ELSE IF ~ValidDate(BaseYear, MONTHS[date_str[3]], date_str[2]) THEN ValueError
    ELSE <<BaseYear, MONTHS[date_str[3]], date_str[2]>>

\* _parse_time: "HH:MM-HH:MM" -> (time(HH, MM), time(HH, MM)); ValueError otherwise
_parse_time(time_str) ==
    IF Len(time_str) # 4 THEN ValueError
    ELSE IF ~(ValidTime(time_str[1], time_str[2]) /\ ValidTime(time_str[3], time_str[4]))
         THEN ValueError
    ELSE <<MkTime(time_str[1], time_str[2]), MkTime(time_str[3], time_str[4])>>

-----------------------------------------------------------------------------
(* Interval Extractor: _get_busy_intervals *)

EmptyDict == <<>>

\* list.sort(key=lambda x: x[0]) is stable: x goes after every element whose
\* start is not greater than its own
RECURSIVE InsertByStart(_, _)
InsertByStart(sorted, x) ==
    IF sorted = <<>> THEN <<x>>
    ELSE IF x[1] < Head(sorted)[1] THEN <<x>> \o sorted
    ELSE <<Head(sorted)>> \o InsertByStart(Tail(sorted), x)

RECURSIVE SortByStart(_)
SortByStart(list) ==
    IF list = <<>> THEN <<>>
    ELSE InsertByStart(SortByStart(SubSeq(list, 1, Len(list) - 1)), list[Len(list)])

\* The lesson loop of one day record: appends each parsed (start, end) to the
\* date's list; a ValueError from _parse_time leaves the loop with what was
\* appended so far.
RECURSIVE AppendLessons(_, _)
AppendLessons(lessons, list) ==
    IF lessons = <<>> THEN [list |-> list, raised |-> FALSE]
    ELSE IF Head(lessons) = NoTimeStr THEN AppendLessons(Tail(lessons), list)
    ELSE IF _parse_time(Head(lessons)) = ValueError THEN [list |-> list, raised |-> TRUE]
    ELSE AppendLessons(Tail(lessons), Append(list, _parse_time(Head(lessons))))

\* The date's list when the try body is left: the sort is its last statement,
\* so it is skipped when a lesson raised
AfterLessons(r) == IF r.raised THEN r.list ELSE SortByStart(r.list)

\* busy_intervals[date] after `if date not in busy_intervals: busy_intervals[date] = []`
ListOfDate(busy_intervals, date) ==
    IF date \in DOMAIN busy_intervals THEN busy_intervals[date] ELSE <<>>

\* busy_intervals with the list of the date replaced
WithDate(busy_intervals, date, list) ==
    [d \in (DOMAIN busy_intervals) \cup {date} |->
        IF d = date THEN list ELSE busy_intervals[d]]

\* The try body once the label was parsed; a ValueError from _parse_date skips
\* the record
StoreDay(busy_intervals, date, lessons) ==
    IF date = ValueError THEN busy_intervals
    ELSE WithDate(busy_intervals, date,
                  AfterLessons(AppendLessons(lessons, ListOfDate(busy_intervals, date))))

\* One iteration of `for day_data in schedule`: the try body and its except
ProcessDay(busy_intervals, day_data) ==
    StoreDay(busy_intervals, _parse_date(day_data.day), day_data.lessons)

RECURSIVE ExtractBusy(_)
ExtractBusy(schedule) ==
    IF schedule = <<>> THEN EmptyDict
    ELSE ProcessDay(ExtractBusy(SubSeq(schedule, 1, Len(schedule) - 1)),
                    schedule[Len(schedule)])

\* Whether schedule_index passes the guard of _get_busy_intervals (indices are
\* 0-based in the code, sequences 1-based here)
HasSchedule(schedule_index) ==
    schedules # <<>> /\ schedule_index < Len(schedules)

\* What _get_busy_intervals(schedule_index) returns when the cache is `cache`
_get_busy_intervals(cache, schedule_index) ==
    IF ~HasSchedule(schedule_index) THEN EmptyDict
    ELSE IF schedule_index \in DOMAIN cache THEN cache[schedule_index]
    ELSE ExtractBusy(schedules[schedule_index + 1])

\* CacheAfterGet with `self._busy_intervals = {schedule_index: busy_intervals}`
\* in place of line 252
CacheAfterGetAlone(cache, schedule_index) ==
    IF ~HasSchedule(schedule_index) \/ schedule_index \in DOMAIN cache THEN cache
    ELSE [i \in {schedule_index} |-> ExtractBusy(schedules[schedule_index + 1])]

\* The cache after _get_busy_intervals(schedule_index)
CacheAfterGet(cache, schedule_index) ==
    IF ~HasSchedule(schedule_index) \/ schedule_index \in DOMAIN cache THEN cache
    ELSE [i \in (DOMAIN cache) \cup {schedule_index} |->
            IF i = schedule_index THEN ExtractBusy(schedules[schedule_index + 1])
            ELSE cache[i]]

\* The cache after _get_busy_intervals was called for each index of a set
RECURSIVE CacheAfterAll(_, _)
CacheAfterAll(cache, indices) ==
    IF indices = {} THEN cache
    ELSE LET i == CHOOSE j \in indices : TRUE
         IN  CacheAfterAll(CacheAfterGet(cache, i), indices \ {i})

-----------------------------------------------------------------------------
(* Availability Resolver *)

\* The sweep of _get_free_intervals over the busy intervals of the date
RECURSIVE Sweep(_, _, _)
Sweep(busy, current_time, free_intervals) ==
    IF busy = <<>> THEN [current_time |-> current_time, free_intervals |-> free_intervals]
    ELSE Sweep(Tail(busy),
               IF current_time < Head(busy)[2] THEN Head(busy)[2] ELSE current_time,
               IF current_time < Head(busy)[1]
               THEN Append(free_intervals, <<current_time, Head(busy)[1]>>)
               ELSE free_intervals)

\* CloseDay without the interval after the last lesson (lines 296-297 left out)
CloseDayNoTail(s, max_end_time) == s.free_intervals

\* The interval appended after the last lesson, s being the outcome of the sweep
CloseDay(s, max_end_time) ==
    IF s.current_time < max_end_time
    THEN Append(s.free_intervals, <<s.current_time, max_end_time>>)
    ELSE s.free_intervals

\* _get_free_intervals once the busy intervals of the calendar are at hand
FreeOfDate(busy_intervals, date, min_start_time, max_end_time) ==
    IF date \notin DOMAIN busy_intervals THEN << <<min_start_time, max_end_time>> >>
    ELSE CloseDay(Sweep(busy_intervals[date], min_start_time, <<>>), max_end_time)

_get_free_intervals(cache, date, schedule_index, min_start_hour, max_end_hour) ==
    FreeOfDate(_get_busy_intervals(cache, schedule_index), date,
               MkTime(min_start_hour, 0), MkTime(max_end_hour, 0))

Max2(a, b) == IF a >= b THEN a ELSE b
Min2(a, b) == IF a <= b THEN a ELSE b

\* IntersectOne with `intersection_end = common_end` in place of line 338
RECURSIVE IntersectOneKeepEnd(_, _)
IntersectOneKeepEnd(c, free_intervals) ==
    IF free_intervals = <<>> THEN <<>>
    ELSE (IF Max2(c[1], Head(free_intervals)[1]) < c[2]
          THEN << <<Max2(c[1], Head(free_intervals)[1]), c[2]>> >> ELSE <<>>)
         \o IntersectOneKeepEnd(c, Tail(free_intervals))

\* The nested loops of _get_free_intervals_for_multiple_schedules: every
\* non-empty intersection of a common interval with a free interval, in loop order
RECURSIVE IntersectOne(_, _)
IntersectOne(c, free_intervals) ==
    IF free_intervals = <<>> THEN <<>>
    ELSE LET intersection_start == Max2(c[1], Head(free_intervals)[1])
             intersection_end == Min2(c[2], Head(free_intervals)[2])
         IN  (IF intersection_start < intersection_end
              THEN << <<intersection_start, intersection_end>> >> ELSE <<>>)
             \o IntersectOne(c, Tail(free_intervals))

RECURSIVE Intersect(_, _)
Intersect(common_free_intervals, free_intervals) ==
    IF common_free_intervals = <<>> THEN <<>>
    ELSE IntersectOne(Head(common_free_intervals), free_intervals)
         \o Intersect(Tail(common_free_intervals), free_intervals)

NoneIndices == <<-1>>       \* schedule_indices=None

\* schedule_indices after `if schedule_indices is None: ... range(len(self.schedules))`
ResolveIndices(schedule_indices) ==
    IF schedule_indices = NoneIndices THEN [k \in 1..Len(schedules) |-> k - 1]
    ELSE schedule_indices

\* r = [common, read] with idx added to the indices read
AlsoRead(r, idx) == [common |-> r.common, read |-> r.read \cup {idx}]

\* The loop `for idx in schedule_indices[1:]` from position k on, with its break.
\* Yields the common intervals and the indices whose free intervals were read.
RECURSIVE IntersectFrom(_, _, _, _, _, _, _)

\* IntersectStep without the break of lines 348-349
IntersectStepNoBreak(cache, date, indices, k, new_common_intervals, lo, hi) ==
    AlsoRead(IntersectFrom(cache, date, indices, k + 1, new_common_intervals, lo, hi),
             indices[k])

\* The end of one iteration: new_common_intervals replaces the common intervals
\* and the loop breaks when it is empty
IntersectStep(cache, date, indices, k, new_common_intervals, lo, hi) ==
    IF new_common_intervals = <<>> THEN [common |-> <<>>, read |-> {indices[k]}]
    ELSE AlsoRead(IntersectFrom(cache, date, indices, k + 1, new_common_intervals, lo, hi),
                  indices[k])

IntersectFrom(cache, date, indices, k, common, lo, hi) ==
    IF k > Len(indices) THEN [common |-> common, read |-> {}]
    ELSE IntersectStep(cache, date, indices, k,
                       Intersect(common, _get_free_intervals(cache, date, indices[k], lo, hi)),
                       lo, hi)

\* MultiFreeOf starting from the whole day in place of the first listed calendar
\* (line 325)
MultiFreeOfRest(cache, date, indices, min_start_hour, max_end_hour) ==
    AlsoRead(IntersectFrom(cache, date, indices, 2,
                           << <<MkTime(min_start_hour, 0), MkTime(max_end_hour, 0)>> >>,
                           min_start_hour, max_end_hour),
             indices[1])

\* _get_free_intervals_for_multiple_schedules from the first listed calendar on
MultiFreeOf(cache, date, indices, min_start_hour, max_end_hour) ==
    AlsoRead(IntersectFrom(cache, date, indices, 2,
                           _get_free_intervals(cache, date, indices[1],
                                               min_start_hour, max_end_hour),
                           min_start_hour, max_end_hour),
             indices[1])

\* _get_free_intervals_for_multiple_schedules: [common, read]
MultiFree(cache, date, schedule_indices, min_start_hour, max_end_hour) ==
    IF schedules = <<>> THEN [common |-> <<>>, read |-> {}]
    ELSE MultiFreeOf(cache, date, ResolveIndices(schedule_indices),
                     min_start_hour, max_end_hour)

_get_free_intervals_for_multiple_schedules(cache, date, schedule_indices, lo, hi) ==
    MultiFree(cache, date, schedule_indices, lo, hi).common

_interval_duration_minutes(start_time, end_time) ==
    (HourOf(end_time) * 60 + MinuteOf(end_time))
    - (HourOf(start_time) * 60 + MinuteOf(start_time))

-----------------------------------------------------------------------------
(* Date Validity Filter *)

NoDeadline == <<>>          \* deadline=None

\* _is_holiday without the custom holidays of line 190
IsRegionHoliday(date) == date \in holiday_calendar

_is_holiday(date) ==
    IF date \in holiday_calendar THEN TRUE
    ELSE <<date[3], date[2]>> \in custom_holidays

_is_weekend(date) == Weekday(date) >= 5

\* _is_valid_date with `date >= deadline` in place of line 385
ValidBeforeDeadline(date, include_weekends, include_holidays, deadline) ==
    IF deadline # NoDeadline /\ ~DateLT(date, deadline) THEN FALSE
    ELSE IF ~include_weekends /\ _is_weekend(date) THEN FALSE
    ELSE IF ~include_holidays /\ _is_holiday(date) THEN FALSE
    ELSE TRUE

_is_valid_date(date, include_weekends, include_holidays, deadline) ==
    IF deadline # NoDeadline /\ DateGT(date, deadline) THEN FALSE
    ELSE IF ~include_weekends /\ _is_weekend(date) THEN FALSE
    ELSE IF ~include_holidays /\ _is_holiday(date) THEN FALSE
    ELSE TRUE

-----------------------------------------------------------------------------
(* Search algorithms.  A search configuration c is a record of the keyword  *)
(* arguments; every search yields [result, read]: the returned value and    *)
(* the schedule indices whose busy intervals it asked for.                  *)

NotFound == [found |-> FALSE]       \* return None

\* datetime.time((start + minutes) // 60, (start + minutes) % 60)
EndTime(start_time, minutes) ==
    MkTime((HourOf(start_time) * 60 + MinuteOf(start_time) + minutes) \div 60,
           (HourOf(start_time) * 60 + MinuteOf(start_time) + minutes) % 60)

\* The dict of one window
Window(date, start_time, minutes) ==
    [date |-> date, start_time |-> start_time,
     end_time |-> EndTime(start_time, minutes), duration_minutes |-> minutes]

\* `for start_time, end_time in intervals: if duration >= width_minutes: ...`
\* from position k on: the window at the first interval wide enough
RECURSIVE FirstWindowFrom(_, _, _, _)
FirstWindowFrom(date, intervals, width_minutes, k) ==
    IF k > Len(intervals) THEN NotFound
    ELSE IF _interval_duration_minutes(intervals[k][1], intervals[k][2]) >= width_minutes
         THEN [found |-> TRUE, window |-> Window(date, intervals[k][1], width_minutes)]
    ELSE FirstWindowFrom(date, intervals, width_minutes, k + 1)

FirstWindow(date, intervals, width_minutes) ==
    FirstWindowFrom(date, intervals, width_minutes, 1)

ValidDay(c, date) ==
    _is_valid_date(date, c.include_weekends, c.include_holidays, c.deadline)

\* r = [result, read] with a set of indices added to the indices read
WithRead(r, read) == [result |-> r.result, read |-> r.read \cup read]

\* Algorithm 1: the while loop of find_nearest_window_by_width
RECURSIVE WidthLoop(_, _, _, _)

\* A valid day of Algorithm 1, w being the outcome of the scan of its free intervals
WidthDay(cache, c, current_date, days_checked, w) ==
    IF w.found
    THEN [result |-> [found |-> TRUE] @@ w.window, read |-> {c.schedule_index}]
    ELSE WithRead(WidthLoop(cache, c, NextDay(current_date), days_checked + 1),
                  {c.schedule_index})

WidthLoop(cache, c, current_date, days_checked) ==
    IF days_checked >= c.max_days_to_check THEN [result |-> NotFound, read |-> {}]
    ELSE IF ValidDay(c, current_date)
    THEN WidthDay(cache, c, current_date, days_checked,
                  FirstWindow(current_date,
                              _get_free_intervals(cache, current_date, c.schedule_index,
                                                  c.min_start_hour, c.max_end_hour),
                              c.width_minutes))
    ELSE WidthLoop(cache, c, NextDay(current_date), days_checked + 1)

\* find_nearest_window_by_width with `days_checked = -1` in place of line 436
WidthOneMoreDay(cache, c) ==
    IF ~HasSchedule(c.schedule_index) THEN [result |-> NotFound, read |-> {}]
    ELSE WidthLoop(cache, c, c.start_date, -1)

find_nearest_window_by_width(cache, c) ==
    IF ~HasSchedule(c.schedule_index) THEN [result |-> NotFound, read |-> {}]
    ELSE WidthLoop(cache, c, c.start_date, 0)

\* Algorithm 2: `for day_offset in range(days_count)` from day_offset on;
\* yields the windows found before the loop ended or broke
RECURSIVE RunWindows(_, _, _, _)

\* A valid day of the run, w being the outcome of the scan of its free intervals
RunPick(cache, c, current_date, day_offset, w) ==
    [windows |-> IF w.found
                 THEN <<w.window>>
                      \o RunWindows(cache, c, current_date, day_offset + 1).windows
                 ELSE <<>>,
     read |-> {c.schedule_index}]

\* RunDay without the inner validity test of lines 521-522
RunDayUnchecked(cache, c, current_date, day_offset, check_date) ==
    RunPick(cache, c, current_date, day_offset,
            FirstWindow(check_date,
                        _get_free_intervals(cache, check_date, c.schedule_index,
                                            c.min_start_hour, c.max_end_hour),
                        c.width_minutes))

\* One day of the run: the inner validity test, then the scan
RunDay(cache, c, current_date, day_offset, check_date) ==
    IF ~ValidDay(c, check_date) THEN [windows |-> <<>>, read |-> {}]
    ELSE RunPick(cache, c, current_date, day_offset,
                 FirstWindow(check_date,
                             _get_free_intervals(cache, check_date, c.schedule_index,
                                                 c.min_start_hour, c.max_end_hour),
                             c.width_minutes))

RunWindows(cache, c, current_date, day_offset) ==
    IF day_offset >= c.days_count THEN [windows |-> <<>>, read |-> {}]
    ELSE RunDay(cache, c, current_date, day_offset, AddDays(current_date, day_offset))

\* Algorithm 2: the while loop of find_nearest_window_by_width_and_length
RECURSIVE RunLoop(_, _, _, _)

\* RunFrom with `consecutive_days >= 1` in place of the test of line 551
RunFromAnyDay(cache, c, current_date, days_checked, run) ==
    IF Len(run.windows) >= 1
    THEN [result |-> [found |-> TRUE, start_date |-> current_date,
                      end_date |-> AddDays(current_date, c.days_count - 1),
                      days_count |-> c.days_count,
                      width_minutes |-> c.width_minutes,
                      windows |-> run.windows],
          read |-> run.read]
    ELSE WithRead(RunLoop(cache, c, NextDay(current_date), days_checked + 1), run.read)

\* A valid first day of Algorithm 2, run being the outcome of the inner loop
RunFrom(cache, c, current_date, days_checked, run) ==
    IF Len(run.windows) = c.days_count
    THEN [result |-> [found |-> TRUE, start_date |-> current_date,
                      end_date |-> AddDays(current_date, c.days_count - 1),
                      days_count |-> c.days_count,
                      width_minutes |-> c.width_minutes,
                      windows |-> run.windows],
          read |-> run.read]
    ELSE WithRead(RunLoop(cache, c, NextDay(current_date), days_checked + 1), run.read)

RunLoop(cache, c, current_date, days_checked) ==
    IF days_checked >= c.max_days_to_check THEN [result |-> NotFound, read |-> {}]
    ELSE IF ValidDay(c, current_date)
    THEN RunFrom(cache, c, current_date, days_checked, RunWindows(cache, c, current_date, 0))
    ELSE RunLoop(cache, c, NextDay(current_date), days_checked + 1)

find_nearest_window_by_width_and_length(cache, c) ==
    IF ~HasSchedule(c.schedule_index) THEN [result |-> NotFound, read |-> {}]
    ELSE RunLoop(cache, c, c.start_date, 0)

\* list.sort(key=duration, reverse=True) is stable: x goes after every element
\* whose duration is not smaller than its own
RECURSIVE InsertByDuration(_, _)
InsertByDuration(sorted, x) ==
    IF sorted = <<>> THEN <<x>>
    ELSE IF _interval_duration_minutes(x[1], x[2])
            > _interval_duration_minutes(Head(sorted)[1], Head(sorted)[2])
         THEN <<x>> \o sorted
    ELSE <<Head(sorted)>> \o InsertByDuration(Tail(sorted), x)

\* SortByDurationDesc without the sort of line 620
KeepListOrder(list) == list

RECURSIVE SortByDurationDesc(_)
SortByDurationDesc(list) ==
    IF list = <<>> THEN <<>>
    ELSE InsertByDuration(SortByDurationDesc(SubSeq(list, 1, Len(list) - 1)),
                          list[Len(list)])

\* ChunkTaken without the test of line 632
ChunkTakenByDuration(duration, minutes_to_take, min_width_minutes) ==
    duration >= min_width_minutes

\* Whether the chunk of an interval is taken: the two tests of the inner loop
ChunkTaken(duration, minutes_to_take, min_width_minutes) ==
    duration >= min_width_minutes /\ minutes_to_take >= min_width_minutes

\* Algorithm 3: `for start_time, end_time in free_intervals` of one day, from
\* position k on; yields the day's windows and the accumulated minutes
RECURSIVE DayChunks(_, _, _, _, _)

\* day = [day_windows, accumulated_minutes] with a window put in front
AfterWindow(window, day) ==
    [day_windows |-> <<window>> \o day.day_windows,
     accumulated_minutes |-> day.accumulated_minutes]

\* One interval of the day: minutes_to_take = min(duration, total - accumulated)
TakeChunk(c, date, free_intervals, k, accumulated_minutes, duration, minutes_to_take) ==
    IF ChunkTaken(duration, minutes_to_take, c.min_width_minutes)
    THEN IF accumulated_minutes + minutes_to_take >= c.total_minutes
         THEN [day_windows |-> <<Window(date, free_intervals[k][1], minutes_to_take)>>,
               accumulated_minutes |-> accumulated_minutes + minutes_to_take]
         ELSE AfterWindow(Window(date, free_intervals[k][1], minutes_to_take),
                          DayChunks(c, date, free_intervals, k + 1,
                                    accumulated_minutes + minutes_to_take))
    ELSE DayChunks(c, date, free_intervals, k + 1, accumulated_minutes)

DayChunks(c, date, free_intervals, k, accumulated_minutes) ==
    IF k > Len(free_intervals)
    THEN [day_windows |-> <<>>, accumulated_minutes |-> accumulated_minutes]
    ELSE TakeChunk(c, date, free_intervals, k, accumulated_minutes,
                   _interval_duration_minutes(free_intervals[k][1], free_intervals[k][2]),
                   Min2(_interval_duration_minutes(free_intervals[k][1],
                                                   free_intervals[k][2]),
                        c.total_minutes - accumulated_minutes))

\* Algorithm 3: the while loop of find_window_by_volume
RECURSIVE VolumeLoop(_, _, _, _, _)

\* found_windows.extend(day_windows), then the rest of the loop
VolumeJoin(c, day_windows, rest) ==
    [found_windows |-> day_windows \o rest.found_windows,
     accumulated_minutes |-> rest.accumulated_minutes,
     read |-> {c.schedule_index}]

\* A valid day of Algorithm 3, day being the outcome of the scan of its free intervals
VolumeDay(cache, c, current_date, days_checked, day) ==
    VolumeJoin(c, day.day_windows,
               VolumeLoop(cache, c, NextDay(current_date), days_checked + 1,
                          day.accumulated_minutes))

VolumeLoop(cache, c, current_date, days_checked, accumulated_minutes) ==
    IF ~(days_checked < c.max_days_to_check /\ accumulated_minutes < c.total_minutes)
    THEN [found_windows |-> <<>>, accumulated_minutes |-> accumulated_minutes, read |-> {}]
    ELSE IF ValidDay(c, current_date)
    THEN VolumeDay(cache, c, current_date, days_checked,
                   DayChunks(c, current_date,
                             SortByDurationDesc(
                                 _get_free_intervals(cache, current_date, c.schedule_index,
                                                     c.min_start_hour, c.max_end_hour)),
                             1, accumulated_minutes))
    ELSE VolumeLoop(cache, c, NextDay(current_date), days_checked + 1, accumulated_minutes)

\* What find_window_by_volume returns after the loop
VolumeResult(c, acc) ==
    [result |->
        IF acc.accumulated_minutes >= c.total_minutes
        THEN [found |-> TRUE,
              total_minutes |-> acc.accumulated_minutes,
              days_count |-> Cardinality({acc.found_windows[i].date :
                                          i \in DOMAIN acc.found_windows}),
              windows |-> acc.found_windows]
        ELSE NotFound,
     read |-> acc.read]

\* find_window_by_volume without the guard of lines 598-599
VolumeUnguarded(cache, c) ==
    VolumeResult(c, VolumeLoop(cache, c, c.start_date, 0, 0))

find_window_by_volume(cache, c) ==
    IF ~HasSchedule(c.schedule_index) THEN [result |-> NotFound, read |-> {}]
    ELSE VolumeResult(c, VolumeLoop(cache, c, c.start_date, 0, 0))

\* Algorithm 4: the while loop of find_common_window_for_multiple_schedules
RECURSIVE CommonLoop(_, _, _, _)

\* A valid day of Algorithm 4: read are the indices the day asked for, w the
\* outcome of the scan of the common free intervals
CommonPick(cache, c, current_date, days_checked, read, w) ==
    IF w.found
    THEN [result |-> [found |-> TRUE, participants_count |-> Len(c.schedule_indices)]
                     @@ w.window,
          read |-> read]
    ELSE WithRead(CommonLoop(cache, c, NextDay(current_date), days_checked + 1), read)

CommonDay(cache, c, current_date, days_checked, m) ==
    CommonPick(cache, c, current_date, days_checked, m.read,
               FirstWindow(current_date, m.common, c.width_minutes))

CommonLoop(cache, c, current_date, days_checked) ==
    IF days_checked >= c.max_days_to_check THEN [result |-> NotFound, read |-> {}]
    ELSE IF ValidDay(c, current_date)
    THEN CommonDay(cache, c, current_date, days_checked,
                   MultiFree(cache, current_date, c.schedule_indices,
                             c.min_start_hour, c.max_end_hour))
    ELSE CommonLoop(cache, c, NextDay(current_date), days_checked + 1)

find_common_window_for_multiple_schedules(cache, c) ==
    IF schedules = <<>> THEN [result |-> NotFound, read |-> {}]
    ELSE CommonLoop(cache, [c EXCEPT !.schedule_indices = ResolveIndices(@)],
                    c.start_date, 0)

-----------------------------------------------------------------------------
(* Bounded inputs *)

MaxLessons == 3             \* lessons of a day record
MaxDayRecords == 2          \* day records of a calendar
MaxSchedules == 3           \* calendars of an analyzer
MaxDaysToCheck == 3         \* largest max_days_to_check

Thu == <<2025, 2, 27>>
Fri == <<2025, 2, 28>>
Sat == <<2025, 3, 1>>
ThuLabel == <<"Cht", 27, "fevralya">>
FriLabel == <<"Pt", 28, "fevralya">>

\* Lesson times "08:30-09:30" and "10:30-11:00", and an unparseable one
TimeStrs == {<<8, 30, 9, 30>>, <<10, 30, 11, 0>>, BadTimeStr}

RECURSIVE SeqsUpTo(_, _)
SeqsUpTo(S, n) ==
    IF n = 0 THEN {<<>>}
    ELSE {<<>>} \cup {<<x>> \o q : x \in S, q \in SeqsUpTo(S, n - 1)}

DayRecord(day, lessons) == [day |-> day, lessons |-> lessons]

\* A calendar of one record for Thursday with any lessons
DetailedCalendars ==
    {<<DayRecord(ThuLabel, l)>> : l \in SeqsUpTo(TimeStrs, MaxLessons)}

\* A day without lessons, with a lesson without a time, with "08:30-10:30",
\* with "10:30-11:00"
ShortLessons == {<<>>, <<NoTimeStr>>, << <<8, 30, 10, 30>> >>, << <<10, 30, 11, 0>> >>}

\* Calendars of up to MaxDayRecords records, one of them with a malformed label
WeekRecords ==
    {DayRecord(d, l) : d \in {ThuLabel, FriLabel}, l \in ShortLessons \ {<<NoTimeStr>>}}
    \cup {DayRecord(BadLabel, << <<8, 30, 10, 30>> >>)}
WeekCalendars == SeqsUpTo(WeekRecords, MaxDayRecords)

\* Calendars of several people, each with one record for Thursday
ThursdayCalendars == {<<DayRecord(ThuLabel, l)>> : l \in ShortLessons}

\* Calendars whose lesson ends before it starts: "10:00-09:30", "10:30-09:30"
ReversedCalendars ==
    {<<DayRecord(ThuLabel, <<t>>)>> : t \in {<<10, 0, 9, 30>>, <<10, 30, 9, 30>>}}

\* The schedules an analyzer is constructed with
ScheduleLists ==
    {<<>>}
    \cup {<<a>> : a \in DetailedCalendars \cup WeekCalendars}
    \cup {l \in SeqsUpTo(ThursdayCalendars \ {<<DayRecord(ThuLabel, <<NoTimeStr>>)>>},
                         MaxSchedules) : Len(l) >= 2}
    \cup {<<a, b>> : a \in ThursdayCalendars \cup ReversedCalendars, b \in ReversedCalendars}

\* (holiday_calendar, custom_holidays) of the constructed analyzer
HolidayPolicies == {<<{}, {}>>, <<{Fri}, {<<27, 2>>}>>}

QueryDates == {Thu, Fri}
StartDates == {Thu, Fri}
Deadlines == {NoDeadline, Fri}
HourBounds == {<<9, 10>>, <<9, 11>>, <<10, 10>>, <<10, 9>>}
SearchHourBounds == {<<9, 10>>, <<9, 11>>}
ScheduleIndexSet == {0, 1}
IndexLists == {<<0>>, <<1>>, <<0, 1>>, <<1, 0>>, <<0, 1, 2>>, <<2, 1, 0>>, NoneIndices}
SearchIndexLists == {<<0>>, <<1>>, <<0, 1>>, <<1, 2, 0>>, NoneIndices}
Widths == {30, 90}
Totals == {60, 150}
MinWidths == {30, 60}
DayBudgets == {1, MaxDaysToCheck}
DayCounts == {2}

\* The keyword arguments every search takes
CommonArgs ==
    {[start_date |-> sd, include_weekends |-> iw, include_holidays |-> ih,
      deadline |-> dl, max_days_to_check |-> md,
      min_start_hour |-> hb[1], max_end_hour |-> hb[2]] :
        sd \in StartDates, iw \in BOOLEAN, ih \in BOOLEAN, dl \in Deadlines,
        md \in DayBudgets, hb \in SearchHourBounds}

-----------------------------------------------------------------------------
(* The analyzer and the calls made on it *)

NoCall == [op |-> "none"]
NoRet == [returned |-> FALSE]

\* __init__(schedules, year, country, custom_holidays)
Init ==
    /\ schedules \in ScheduleLists
    /\ \E hp \in HolidayPolicies : holiday_calendar = hp[1] /\ custom_holidays = hp[2]
    /\ busy_cache = EmptyDict
    /\ call = NoCall
    /\ ret = NoRet
    /\ OnlyAnalyzer

GetFreeIntervals ==
    /\ call = NoCall
    /\ \E date \in QueryDates, i \in ScheduleIndexSet, hb \in HourBounds :
        /\ call' = [op |-> "_get_free_intervals", date |-> date, schedule_index |-> i,
                    min_start_hour |-> hb[1], max_end_hour |-> hb[2]]
        /\ ret' = [returned |-> TRUE,
                   value |-> _get_free_intervals(busy_cache, date, i, hb[1], hb[2])]
        /\ busy_cache' = CacheAfterGet(busy_cache, i)
        /\ UNCHANGED <<schedules, holiday_calendar, custom_holidays, threads, retry, transfer>>

\* A call c of _get_free_intervals_for_multiple_schedules returned m = [common, read]
ReturnedCommon(c, m) ==
    /\ call' = c
    /\ ret' = [returned |-> TRUE, value |-> m.common]
    /\ busy_cache' = CacheAfterAll(busy_cache, m.read)
    /\ UNCHANGED <<schedules, holiday_calendar, custom_holidays, threads, retry, transfer>>

GetCommonFreeIntervals ==
    /\ call = NoCall
    /\ \E date \in QueryDates, l \in IndexLists, hb \in HourBounds :
        ReturnedCommon([op |-> "_get_free_intervals_for_multiple_schedules", date |-> date,
                        schedule_indices |-> l,
                        min_start_hour |-> hb[1], max_end_hour |-> hb[2]],
                       MultiFree(busy_cache, date, l, hb[1], hb[2]))

IsValidDate ==
    /\ call = NoCall
    /\ \E date \in {Thu, Fri, Sat}, iw \in BOOLEAN, ih \in BOOLEAN, dl \in Deadlines :
        /\ call' = [op |-> "_is_valid_date", date |-> date, include_weekends |-> iw,
                    include_holidays |-> ih, deadline |-> dl]
        /\ ret' = [returned |-> TRUE, value |-> _is_valid_date(date, iw, ih, dl)]
        /\ UNCHANGED <<schedules, holiday_calendar, custom_holidays, busy_cache,
                       threads, retry, transfer>>

\* A search called with c returned r = [result, read]
Returned(c, r) ==
    /\ call' = c
    /\ ret' = [returned |-> TRUE, value |-> r.result]
    /\ busy_cache' = CacheAfterAll(busy_cache, r.read)
    /\ UNCHANGED <<schedules, holiday_calendar, custom_holidays, threads, retry, transfer>>

FindNearestWindowByWidth ==
    /\ call = NoCall
    /\ \E a \in CommonArgs, w \in Widths, i \in ScheduleIndexSet :
        LET c == [op |-> "find_nearest_window_by_width", width_minutes |-> w,
                  schedule_index |-> i] @@ a
        IN  Returned(c, find_nearest_window_by_width(busy_cache, c))

FindNearestWindowByWidthAndLength ==
    /\ call = NoCall
    /\ \E a \in CommonArgs, w \in Widths, n \in DayCounts, i \in ScheduleIndexSet :
        LET c == [op |-> "find_nearest_window_by_width_and_length",
                  width_minutes |-> w, days_count |-> n, schedule_index |-> i] @@ a
        IN  Returned(c, find_nearest_window_by_width_and_length(busy_cache, c))

FindWindowByVolume ==
    /\ call = NoCall
    /\ \E a \in CommonArgs, t \in Totals, mw \in MinWidths, i \in ScheduleIndexSet :
        LET c == [op |-> "find_window_by_volume", total_minutes |-> t,
                  min_width_minutes |-> mw, schedule_index |-> i] @@ a
        IN  Returned(c, find_window_by_volume(busy_cache, c))

FindCommonWindow ==
    /\ call = NoCall
    /\ \E a \in CommonArgs, w \in Widths, l \in SearchIndexLists :
        LET c == [op |-> "find_common_window_for_multiple_schedules",
                  width_minutes |-> w, schedule_indices |-> l] @@ a
        IN  Returned(c, find_common_window_for_multiple_schedules(busy_cache, c))

Next ==
    \/ GetFreeIntervals
    \/ GetCommonFreeIntervals
    \/ IsValidDate
    \/ FindNearestWindowByWidth
    \/ FindNearestWindowByWidthAndLength
    \/ FindWindowByVolume
    \/ FindCommonWindow

Spec == Init /\ [][Next]_vars

-----------------------------------------------------------------------------
(* The analyzer over its life: calendars and holiday policy change between *)
(* the queries                                                             *)

\* The calendars added or set later on: Thursday with "08:30-10:30", Thursday
\* with "10:30-11:00"
ChangeCalendars ==
    {<<DayRecord(ThuLabel, <<t>>)>> : t \in {<<8, 30, 10, 30>>, <<10, 30, 11, 0>>}}

\* The lists set_schedules is called with
ChangeLists == {l \in SeqsUpTo(ChangeCalendars, MaxSchedules - 1) : Len(l) # 1}

\* The region calendars holidays.country_holidays may return
RegionCalendars == {{}, {Fri}}

\* A mutator returned None: no query result is held any more
Mutated ==
    /\ call' = NoCall
    /\ ret' = NoRet
    /\ UNCHANGED <<threads, retry, transfer>>

\* set_schedules without the reset of the cache (lines 86-87 left out)
SetSchedulesKeepCache ==
    /\ \E l \in ChangeLists : schedules' = l
    /\ Mutated
    /\ UNCHANGED <<holiday_calendar, custom_holidays, busy_cache>>

\* add_schedule(schedule): an empty schedule changes nothing
AddSchedule ==
    /\ Len(schedules) < MaxSchedules
    /\ \E schedule \in ChangeCalendars \cup {<<>>} :
        IF schedule # <<>>
        THEN /\ schedules' = Append(schedules, schedule)
             /\ busy_cache' = EmptyDict
        ELSE UNCHANGED <<schedules, busy_cache>>
    /\ Mutated
    /\ UNCHANGED <<holiday_calendar, custom_holidays>>

\* set_schedules(schedules)
SetSchedules ==
    /\ \E l \in ChangeLists : schedules' = l
    /\ busy_cache' = EmptyDict
    /\ Mutated
    /\ UNCHANGED <<holiday_calendar, custom_holidays>>

\* set_holiday_calendar(country, years)
SetHolidayCalendar ==
    /\ \E calendar \in RegionCalendars : holiday_calendar' = calendar
    /\ Mutated
    /\ UNCHANGED <<schedules, custom_holidays, busy_cache>>

\* add_custom_holiday(day, month)
AddCustomHoliday ==
    /\ custom_holidays' = custom_holidays \cup {<<27, 2>>}
    /\ Mutated
    /\ UNCHANGED <<schedules, holiday_calendar, busy_cache>>

\* _get_busy_intervals(schedule_index), called on its own
GetBusyIntervals ==
    \E i \in ScheduleIndexSet \cup {MaxSchedules - 1} :
        /\ call' = [op |-> "_get_busy_intervals", schedule_index |-> i]
        /\ ret' = [returned |-> TRUE, value |-> _get_busy_intervals(busy_cache, i)]
        /\ busy_cache' = CacheAfterGet(busy_cache, i)
        /\ UNCHANGED <<schedules, holiday_calendar, custom_holidays, threads, retry, transfer>>

\* __init__ with no calendars or with one of the later ones
InitChanges ==
    /\ schedules \in {<<>>} \cup {<<a>> : a \in ChangeCalendars}
    /\ holiday_calendar = {}
    /\ custom_holidays = {}
    /\ busy_cache = EmptyDict
    /\ call = NoCall
    /\ ret = NoRet
    /\ OnlyAnalyzer

NextChanges ==
    \/ AddSchedule
    \/ SetSchedules
    \/ SetHolidayCalendar
    \/ AddCustomHoliday
    \/ GetBusyIntervals
    \/ GetFreeIntervals
    \/ GetCommonFreeIntervals
    \/ FindNearestWindowByWidth
    \/ FindNearestWindowByWidthAndLength
    \/ FindWindowByVolume
    \/ FindCommonWindow

SpecChanges == InitChanges /\ [][NextChanges]_vars

-----------------------------------------------------------------------------
(* Vocabulary of the properties *)

SearchOps ==
    {"find_nearest_window_by_width", "find_nearest_window_by_width_and_length",
     "find_window_by_volume", "find_common_window_for_multiple_schedules"}

\* A search returned a result other than None
Found == call.op \in SearchOps /\ ret.value.found

\* The minutes of [start, end) and of a list of such intervals
MinutesOf(interval) == interval[1]..(interval[2] - 1)
MinutesIn(intervals) == UNION {MinutesOf(intervals[k]) : k \in DOMAIN intervals}

\* The minutes of the day bound [min_start_hour:00, max_end_hour:00) of the call
DayBound == MkTime(call.min_start_hour, 0)..(MkTime(call.max_end_hour, 0) - 1)

\* The single interval (min_start_hour:00, max_end_hour:00) of the call
WholeDay == << <<MkTime(call.min_start_hour, 0), MkTime(call.max_end_hour, 0)>> >>

\* The busy intervals the analyzer has recorded for a date in calendar idx
Recorded(idx, date) == ListOfDate(_get_busy_intervals(busy_cache, idx), date)

\* The windows or chunks of a returned result
WindowsOf(value) == IF "windows" \in DOMAIN value THEN value.windows ELSE <<value>>

\* The calendar indices a search was asked about
Listed ==
    IF "schedule_indices" \in DOMAIN call THEN ResolveIndices(call.schedule_indices)
    ELSE <<call.schedule_index>>
ListedSet == {Listed[k] : k \in DOMAIN Listed}

\* A window shares no minute with the busy intervals recorded for its date in
\* calendar idx
Clear(window, idx) ==
    MinutesOf(<<window.start_time, window.end_time>>)
        \cap MinutesIn(Recorded(idx, window.date)) = {}

\* The date fails one of the three tests the validity filter is specified by
Rejected(date, include_weekends, include_holidays, deadline) ==
    \/ deadline # NoDeadline /\ DateGT(date, deadline)
    \/ ~include_weekends /\ Weekday(date) \in {5, 6}
    \/ ~include_holidays
       /\ (date \in holiday_calendar \/ <<date[3], date[2]>> \in custom_holidays)

RejectedByCall(date) ==
    Rejected(date, call.include_weekends, call.include_holidays, call.deadline)

\* free and the busy minutes tile the day: no free interval leaves the day, none
\* meets a busy minute or another free interval, and no minute of the day is
\* left out
Tiles(free, busy, day) ==
    /\ MinutesIn(free) \subseteq day
    /\ MinutesIn(free) \cap busy = {}
    /\ day \subseteq (MinutesIn(free) \cup busy)
    /\ \A j, k \in DOMAIN free :
        j # k => MinutesOf(free[j]) \cap MinutesOf(free[k]) = {}

MinOf(S) == CHOOSE x \in S : \A y \in S : x <= y

-----------------------------------------------------------------------------
(* The properties *)

\* C1 as stated: no window or chunk returned by any of the four searches shares
\* a minute with a busy interval recorded for its date in a searched calendar.
\* It fails: a lesson whose time does not parse leaves the lessons before it
\* recorded but unsorted, and the sweep then emits a free interval over one of them.
C1_NoWindowOverlapsBusy ==
    Found => \A k \in DOMAIN WindowsOf(ret.value), idx \in ListedSet :
                Clear(WindowsOf(ret.value)[k], idx)

\* C2 as stated: the free intervals _get_free_intervals returns and the busy
\* intervals of the date tile [min_start_hour:00, max_end_hour:00), and no free
\* interval holds a minute outside it.  It fails: a lesson that starts after
\* max_end_hour:00 makes the sweep emit a free interval that ends at its start.
C2_FreeAndBusyTileDay ==
    call.op = "_get_free_intervals" =>
        Tiles(ret.value, MinutesIn(Recorded(call.schedule_index, call.date)), DayBound)

\* C3 as stated: for a date with zero recorded busy intervals _get_free_intervals
\* returns exactly the one interval (min_start_hour:00, max_end_hour:00).
C3_ZeroBusyWholeDay ==
    (call.op = "_get_free_intervals" /\ Recorded(call.schedule_index, call.date) = <<>>)
        => ret.value = WholeDay

\* C3 amended: the same for day bounds with min_start_hour < max_end_hour (with
\* other bounds a date that has a record without lessons yields no interval
\* while an absent date yields the one interval).
C3_ZeroBusyWholeDayProperBounds ==
    (/\ call.op = "_get_free_intervals"
     /\ Recorded(call.schedule_index, call.date) = <<>>
     /\ call.min_start_hour < call.max_end_hour)
        => ret.value = WholeDay

\* C3 witness: a date whose record has no lessons was asked for with proper bounds
C3_Witness ==
    /\ call.op = "_get_free_intervals"
    /\ HasSchedule(call.schedule_index)
    /\ call.date \in DOMAIN _get_busy_intervals(busy_cache, call.schedule_index)
    /\ Recorded(call.schedule_index, call.date) = <<>>
    /\ call.min_start_hour < call.max_end_hour
    /\ ret.value = WholeDay

\* C4 as stated: a window returned by find_nearest_window_by_width spans exactly
\* width_minutes, reports it as duration_minutes, starts no earlier than
\* min_start_hour:00 and ends no later than max_end_hour:00.  It fails on the
\* last part, through the free interval that runs past max_end_hour:00.
C4_WidthWindowInsideDay ==
    (call.op = "find_nearest_window_by_width" /\ ret.value.found) =>
        /\ ret.value.end_time - ret.value.start_time = call.width_minutes
        /\ ret.value.duration_minutes = call.width_minutes
        /\ ret.value.start_time >= MkTime(call.min_start_hour, 0)
        /\ ret.value.end_time <= MkTime(call.max_end_hour, 0)

\* C5: a result of find_window_by_volume has total_minutes of at least the
\* requested total_minutes, and every chunk of it lasts at least min_width_minutes.
C5_VolumeReachedByWideChunks ==
    (call.op = "find_window_by_volume" /\ ret.value.found) =>
        /\ ret.value.total_minutes >= call.total_minutes
        /\ \A k \in DOMAIN ret.value.windows :
            ret.value.windows[k].duration_minutes >= call.min_width_minutes

\* C5 witness: a volume was gathered from several chunks under a minimum width
\* above the smallest free interval
C5_Witness ==
    /\ call.op = "find_window_by_volume"
    /\ ret.value.found
    /\ Len(ret.value.windows) >= 2
    /\ call.min_width_minutes = 60

\* C6: _is_valid_date is true exactly when no deadline is set or the date is not
\* after it, weekends are included or the date is no Saturday or Sunday, and
\* holidays are included or the date is no holiday.
C6_ValidExactlyWhenAllTestsPass ==
    call.op = "_is_valid_date" => (ret.value <=> ~RejectedByCall(call.date))

\* C6 witness: the deadline date itself was asked about and found valid
C6_Witness ==
    /\ call.op = "_is_valid_date"
    /\ call.date = call.deadline
    /\ ret.value = TRUE

\* C7: no search returns a window or chunk on a date the validity filter rejects;
\* for find_nearest_window_by_width_and_length this covers every day of the run.
C7_NoWindowOnRejectedDate ==
    Found => \A k \in DOMAIN WindowsOf(ret.value) :
                ~RejectedByCall(WindowsOf(ret.value)[k].date)

\* C7 witness: a run of several days was returned under all three restrictions,
\* its last day being the deadline
C7_Witness ==
    /\ call.op = "find_nearest_window_by_width_and_length"
    /\ ret.value.found
    /\ Len(ret.value.windows) >= 2
    /\ ~call.include_weekends /\ ~call.include_holidays
    /\ call.deadline = ret.value.end_date

\* The call asked _get_free_intervals_for_multiple_schedules about the one index [i]
SingleIndexCall ==
    /\ call.op = "_get_free_intervals_for_multiple_schedules"
    /\ call.schedule_indices # NoneIndices
    /\ Len(call.schedule_indices) = 1

\* What _get_free_intervals returns for calendar idx with the date and bounds of
\* the call
FreeOf(idx, date) ==
    _get_free_intervals(busy_cache, date, idx, call.min_start_hour, call.max_end_hour)

Perms(list) ==
    {[k \in DOMAIN list |-> list[p[k]]] :
        p \in {q \in [DOMAIN list -> DOMAIN list] :
                  \A i, j \in DOMAIN list : q[i] = q[j] => i = j}}

\* How often each element occurs in a list
BagOf(list) ==
    [x \in {list[k] : k \in DOMAIN list} |->
        Cardinality({k \in DOMAIN list : list[k] = x})]

\* What the call would have returned for the indices in the order p
Permuted(p) ==
    MultiFree(busy_cache, call.date, p, call.min_start_hour, call.max_end_hour).common

\* The intervals of a list share no minute with one another
Disjoint(intervals) ==
    \A j, k \in DOMAIN intervals :
        j # k => MinutesOf(intervals[j]) \cap MinutesOf(intervals[k]) = {}

\* C9: _get_free_intervals_for_multiple_schedules returns the same intervals for
\* any permutation of schedule_indices: each interval as often, and in the same
\* order when no listed calendar has free intervals that overlap one another.
C9_SameIntervalsForAnyOrder ==
    call.op = "_get_free_intervals_for_multiple_schedules" =>
        \A p \in Perms(Listed) :
            /\ BagOf(Permuted(p)) = BagOf(ret.value)
            /\ (\A idx \in ListedSet : Disjoint(FreeOf(idx, call.date)))
                   => Permuted(p) = ret.value

\* C9 witness: three different calendars were listed and have common free time
C9_Witness ==
    /\ call.op = "_get_free_intervals_for_multiple_schedules"
    /\ call.schedule_indices # NoneIndices
    /\ Len(call.schedule_indices) = 3
    /\ HasSchedule(2)
    /\ schedules[1] # schedules[2] /\ schedules[2] # schedules[3]
    /\ schedules[1] # schedules[3]
    /\ ret.value # <<>>

\* The minutes of the free intervals of each listed calendar on a date
FreeMinutes(date) == [idx \in ListedSet |-> MinutesIn(FreeOf(idx, date))]

\* The minutes that lie in every set of a family
InAll(family) == {m \in 0..1439 : \A idx \in DOMAIN family : m \in family[idx]}

\* The minutes at which every listed calendar is free on a date
EveryoneFree(date) == InAll(FreeMinutes(date))

\* The minutes at which the first j listed calendars are all free
PrefixFree(j) == InAll([i \in 1..j |-> MinutesIn(FreeOf(Listed[i], call.date))])

\* The position of the listed calendar the intersection ends at: the first
\* after which no common minute is left, the last when there is none
StopAt ==
    IF \E j \in 2..Len(Listed) : PrefixFree(j) = {}
    THEN MinOf({j \in 2..Len(Listed) : PrefixFree(j) = {}})
    ELSE Len(Listed)

\* The day offsets within the budget of a common-window search whose date passes
\* the validity filter and has a common free interval of the width
Candidates ==
    {n \in 0..(call.max_days_to_check - 1) :
        /\ ~RejectedByCall(AddDays(call.start_date, n))
        /\ FirstWindow(AddDays(call.start_date, n),
                       MultiFree(busy_cache, AddDays(call.start_date, n),
                                 call.schedule_indices,
                                 call.min_start_hour, call.max_end_hour).common,
                       call.width_minutes).found}

\* The three parts of C10: the minutes returned are those at which every listed
\* calendar is free; the calendars behind the first empty step are not consulted;
\* a common-window search goes past the days without a common window
CommonFreeIsIntersection ==
    /\ call.op = "_get_free_intervals_for_multiple_schedules"
       => /\ MinutesIn(ret.value) = EveryoneFree(call.date)
          /\ DOMAIN busy_cache = {Listed[j] : j \in 1..StopAt}
                                     \cap {idx \in ListedSet : HasSchedule(idx)}
    /\ call.op = "find_common_window_for_multiple_schedules"
       => IF Candidates = {} THEN ~ret.value.found
          ELSE /\ ret.value.found
               /\ ret.value.date = AddDays(call.start_date, MinOf(Candidates))

-----------------------------------------------------------------------------
(* Queries after calendar and holiday changes *)

\* What the query c returns on an analyzer whose cache is empty, so that every
\* busy interval it uses is extracted from the calendars now stored
FreshAnswer(c) ==
    CASE c.op = "_get_busy_intervals" -> _get_busy_intervals(EmptyDict, c.schedule_index)
      [] c.op = "_get_free_intervals" ->
            _get_free_intervals(EmptyDict, c.date, c.schedule_index,
                                c.min_start_hour, c.max_end_hour)
      [] c.op = "_get_free_intervals_for_multiple_schedules" ->
            _get_free_intervals_for_multiple_schedules(EmptyDict, c.date, c.schedule_indices,
                                                       c.min_start_hour, c.max_end_hour)
      [] c.op = "find_nearest_window_by_width" ->
            find_nearest_window_by_width(EmptyDict, c).result
      [] c.op = "find_nearest_window_by_width_and_length" ->
            find_nearest_window_by_width_and_length(EmptyDict, c).result
      [] c.op = "find_window_by_volume" -> find_window_by_volume(EmptyDict, c).result
      [] c.op = "find_common_window_for_multiple_schedules" ->
            find_common_window_for_multiple_schedules(EmptyDict, c).result

\* C11: after any sequence of add_schedule, set_schedules, set_holiday_calendar,
\* add_custom_holiday and reads, every cache entry is the extraction of the
\* calendar now stored at its index, and the answer of the last read is the one
\* an analyzer with an empty cache gives for the calendars now stored: nothing
\* is served from an entry built from the previous calendars.
C11_NoStaleBusyIntervals ==
    /\ \A idx \in DOMAIN busy_cache :
        HasSchedule(idx) /\ busy_cache[idx] = ExtractBusy(schedules[idx + 1])
    /\ call # NoCall => ret.value = FreshAnswer(call)

\* C11 witness: busy intervals are served for the first of two calendars, a
\* list only a calendar change produces, from a cache that holds both entries
C11_Witness ==
    /\ Len(schedules) = 2
    /\ schedules[1] # schedules[2]
    /\ call.op = "_get_busy_intervals"
    /\ call.schedule_index = 0
    /\ DOMAIN busy_cache = {0, 1}
    /\ ret.value = ExtractBusy(schedules[1])
    /\ ret.value # ExtractBusy(schedules[2])

-----------------------------------------------------------------------------
(* Malformed day records *)

\* A day record whose label and every lesson time parse
WellFormed(day_data) ==
    /\ _parse_date(day_data.day) # ValueError
    /\ \A k \in DOMAIN day_data.lessons :
        day_data.lessons[k] = NoTimeStr \/ _parse_time(day_data.lessons[k]) # ValueError

\* The calendar with its malformed day records absent
WithoutMalformed(schedule) == SelectSeq(schedule, WellFormed)

\* C12: extraction does not raise, and the busy intervals extracted for every
\* date are those of the calendar with its malformed day records absent: a
\* record with an unparseable label or lesson time contributes nothing.
C12_MalformedRecordsContributeNothing ==
    /\ call # NoCall => ret.returned
    /\ \A idx \in DOMAIN busy_cache :
        \A date \in {Thu, Fri, Sat} :
            ListOfDate(busy_cache[idx], date)
                = ListOfDate(ExtractBusy(WithoutMalformed(schedules[idx + 1])), date)

-----------------------------------------------------------------------------
(* The day budget of the searches *)

\* The first max_days_to_check calendar days from start_date
Horizon == {AddDays(call.start_date, k) : k \in 0..(call.max_days_to_check - 1)}

\* The dates a result is anchored to: the start_date of a run, the date of
\* every window or chunk otherwise
AnchorDates(value) ==
    IF "start_date" \in DOMAIN value THEN {value.start_date}
    ELSE {WindowsOf(value)[k].date : k \in DOMAIN WindowsOf(value)}

\* C13: every search returns, either the not-found value or a result whose
\* date (the start_date of a run, the date of every chunk of a volume) is one of
\* the first max_days_to_check calendar days from start_date, whether those
\* days are valid or not.
C13_SearchStaysInsideDayBudget ==
    call.op \in SearchOps =>
        /\ ret.returned
        /\ ret.value = NotFound \/ AnchorDates(ret.value) \subseteq Horizon

\* C13 witness: a width search with a budget of MaxDaysToCheck days that
\* stepped over its start day and found the window on the day after
C13_Witness ==
    /\ call.op = "find_nearest_window_by_width"
    /\ call.max_days_to_check = MaxDaysToCheck
    /\ Found
    /\ ret.value.date = NextDay(call.start_date)

-----------------------------------------------------------------------------
(* Calendar indices that do not exist *)

\* The call names a calendar index outside the stored calendars
MissingIndexCall ==
    /\ call # NoCall
    /\ call.op # "_is_valid_date"
    /\ \E k \in DOMAIN Listed : ~HasSchedule(Listed[k])

\* C14: a search or interval query that names a calendar index outside the
\* stored calendars fails with an error: it does not return, neither a window,
\* nor free intervals such as the fully free day, nor the not-found value.
C14_MissingIndexFailsFast ==
    MissingIndexCall => ~ret.returned

-----------------------------------------------------------------------------
(* An analyzer without calendars *)

\* C15: on an analyzer that holds no calendars each of the four searches
\* returns None, whatever its arguments.
C15_NoCalendarsNotFound ==
    (schedules = <<>> /\ call.op \in SearchOps) =>
        ret.returned /\ ret.value = NotFound

\* C15 witness: a volume search over three days, weekends and holidays
\* included, returned None on an analyzer without calendars
C15_Witness ==
    /\ schedules = <<>>
    /\ call.op = "find_window_by_volume"
    /\ call.max_days_to_check = MaxDaysToCheck
    /\ call.include_weekends /\ call.include_holidays
    /\ ret.returned
    /\ ret.value = NotFound

-----------------------------------------------------------------------------
(* Nearest window of a width *)

\* The free intervals of calendar idx on a date that are at least
\* width_minutes long
Fitting(idx, date) ==
    {k \in DOMAIN FreeOf(idx, date) :
        _interval_duration_minutes(FreeOf(idx, date)[k][1], FreeOf(idx, date)[k][2])
            >= call.width_minutes}

\* The day-steps of the horizon whose day is valid and has a fitting free interval
FittingDays(idx) ==
    {n \in 0..(call.max_days_to_check - 1) :
        /\ ~RejectedByCall(AddDays(call.start_date, n))
        /\ Fitting(idx, AddDays(call.start_date, n)) # {}}

\* The earliest start among the fitting free intervals of a date
FirstFittingStart(idx, date) ==
    MinOf({FreeOf(idx, date)[k][1] : k \in Fitting(idx, date)})

\* The minutes between min_start_hour:00 and max_end_hour:00
DayBoundMinutes == (call.max_end_hour - call.min_start_hour) * 60

\* C16: for a stored calendar, find_nearest_window_by_width returns None
\* exactly when no valid day of the horizon has a free interval of at least
\* width_minutes; a width above the day bound is never found; otherwise the
\* window lies on the earliest such day and starts where that day's
\* chronologically first fitting free interval starts.
C16_WidthFirstDayFirstInterval ==
    (call.op = "find_nearest_window_by_width" /\ HasSchedule(call.schedule_index)) =>
        /\ ret.value = NotFound <=> FittingDays(call.schedule_index) = {}
        /\ call.width_minutes > DayBoundMinutes => ret.value = NotFound
        /\ Found =>
            /\ FittingDays(call.schedule_index) # {}
            /\ ret.value.date
                 = AddDays(call.start_date, MinOf(FittingDays(call.schedule_index)))
            /\ ret.value.start_time
                 = FirstFittingStart(call.schedule_index, ret.value.date)
            /\ ret.value.duration_minutes = call.width_minutes

-----------------------------------------------------------------------------
(* Nearest run of days with a window of a width *)

\* Each of the days_count consecutive days from day-step n on is valid and has
\* a fitting free interval
RunFits(idx, n) ==
    \A j \in 0..(call.days_count - 1) :
        /\ ~RejectedByCall(AddDays(call.start_date, n + j))
        /\ Fitting(idx, AddDays(call.start_date, n + j)) # {}

\* The day-steps of the horizon a run can start at
RunStarts(idx) == {n \in 0..(call.max_days_to_check - 1) : RunFits(idx, n)}

\* The first fitting free interval of a date, cut to width_minutes
FirstFittingWindow(idx, date) ==
    [date |-> date,
     start_time |-> FreeOf(idx, date)[MinOf(Fitting(idx, date))][1],
     end_time |-> FreeOf(idx, date)[MinOf(Fitting(idx, date))][1] + call.width_minutes,
     duration_minutes |-> call.width_minutes]

\* C17: for a stored calendar, find_nearest_window_by_width_and_length returns
\* the run of the earliest start day of the horizon from which days_count
\* consecutive days are each valid and have a free interval of at least
\* width_minutes, and None when there is no such start day; the result runs
\* from start_date to end_date = start_date + days_count - 1 and holds one
\* window per day in date order, each the day's first fitting free interval cut
\* to width_minutes.
C17_RunOfEarliestStartDay ==
    (call.op = "find_nearest_window_by_width_and_length"
     /\ HasSchedule(call.schedule_index)) =>
        IF RunStarts(call.schedule_index) = {} THEN ret.value = NotFound
        ELSE /\ Found
             /\ ret.value.start_date
                  = AddDays(call.start_date, MinOf(RunStarts(call.schedule_index)))
             /\ ret.value.end_date = AddDays(ret.value.start_date, call.days_count - 1)
             /\ ret.value.days_count = call.days_count
             /\ Len(ret.value.windows) = call.days_count
             /\ \A j \in 1..call.days_count :
                    ret.value.windows[j]
                        = FirstFittingWindow(call.schedule_index,
                                             AddDays(ret.value.start_date, j - 1))

\* C17 witness: the run from start_date was rejected and the run from the
\* next day returned, its days having lessons of their own
C17_Witness ==
    /\ call.op = "find_nearest_window_by_width_and_length"
    /\ Found
    /\ ret.value.start_date = NextDay(call.start_date)
    /\ Recorded(call.schedule_index, ret.value.start_date) # <<>>

-----------------------------------------------------------------------------
(* Volume over the fewest days *)

\* The minutes of the intervals of a list that are at least min_width_minutes long
RECURSIVE WideMinutes(_)
WideMinutes(intervals) ==
    IF intervals = <<>> THEN 0
    ELSE (IF _interval_duration_minutes(Head(intervals)[1], Head(intervals)[2])
                >= call.min_width_minutes
          THEN _interval_duration_minutes(Head(intervals)[1], Head(intervals)[2])
          ELSE 0)
         + WideMinutes(Tail(intervals))

\* The most minutes that chunks of at least min_width_minutes can take from the
\* free intervals of the days of a set of day-steps
RECURSIVE Capacity(_, _)
Capacity(idx, days) ==
    IF days = {} THEN 0
    ELSE WideMinutes(FreeOf(idx, AddDays(call.start_date, CHOOSE n \in days : TRUE)))
         + Capacity(idx, days \ {CHOOSE n \in days : TRUE})

\* The sets of valid days of the horizon whose free intervals hold total_minutes
\* in chunks of at least min_width_minutes
EnoughDays(idx) ==
    {days \in SUBSET (0..(call.max_days_to_check - 1)) :
        /\ \A n \in days : ~RejectedByCall(AddDays(call.start_date, n))
        /\ Capacity(idx, days) >= call.total_minutes}

\* C18: a result of find_window_by_volume touches the fewest days possible: no
\* set of valid days of the horizon whose free intervals hold total_minutes in
\* chunks of at least min_width_minutes has fewer days than the reported
\* days_count.
C18_VolumeOverFewestDays ==
    (call.op = "find_window_by_volume" /\ Found) =>
        \A days \in EnoughDays(call.schedule_index) :
            Cardinality(days) >= ret.value.days_count

-----------------------------------------------------------------------------
(* Common window of one calendar *)

\* What find_nearest_window_by_width returns for calendar idx with the other
\* arguments of the call
WidthAnswer(idx) ==
    find_nearest_window_by_width(busy_cache, [schedule_index |-> idx] @@ call).result

\* Two search results are the same outcome: both None, or windows with the same
\* date, start_time, end_time and duration_minutes
SameOutcome(a, b) ==
    IF a.found /\ b.found
    THEN /\ a.date = b.date
         /\ a.start_time = b.start_time
         /\ a.end_time = b.end_time
         /\ a.duration_minutes = b.duration_minutes
    ELSE a.found = b.found

\* The stored calendars among those a common-window search was asked about
ListedCalendars == {idx \in ListedSet : HasSchedule(idx)}

\* C19: find_common_window_for_multiple_schedules with schedule_indices = [i]
\* has the same outcome as find_nearest_window_by_width with schedule_index = i
\* and the same other arguments, and every common-window result reports as
\* participants_count the number of calendars it was computed over.
C19_CommonOfOneSameAsWidth ==
    call.op = "find_common_window_for_multiple_schedules" =>
        /\ (call.schedule_indices # NoneIndices /\ Len(call.schedule_indices) = 1)
            => SameOutcome(ret.value, WidthAnswer(call.schedule_indices[1]))
        /\ Found => ret.value.participants_count = Cardinality(ListedCalendars)

-----------------------------------------------------------------------------
(* Windows inside the day bounds *)

\* C20: every per-day window of find_nearest_window_by_width_and_length, every
\* chunk of find_window_by_volume and the window of
\* find_common_window_for_multiple_schedules starts at or after
\* min_start_hour:00 and ends at or before max_end_hour:00.
C20_WindowsInsideDayBounds ==
    (call.op \in SearchOps \ {"find_nearest_window_by_width"} /\ Found) =>
        \A k \in DOMAIN WindowsOf(ret.value) :
            /\ WindowsOf(ret.value)[k].start_time >= MkTime(call.min_start_hour, 0)
            /\ WindowsOf(ret.value)[k].end_time <= MkTime(call.max_end_hour, 0)

-----------------------------------------------------------------------------
(* The busy-interval index and the lists of free intervals *)

\* Every interval of a list starts before it ends
ProperIntervals(list) == \A k \in DOMAIN list : list[k][1] < list[k][2]

\* A list is in ascending order of start time
AscendingStarts(list) ==
    \A j \in DOMAIN list : \A k \in DOMAIN list : j < k => list[j][1] <= list[k][1]

\* C22: in the busy-interval index built for any calendar, every per-date list
\* is in ascending order of start time and every busy interval in it starts
\* before it ends.
C22_BusyIndexSortedAndProper ==
    \A idx \in DOMAIN busy_cache :
        \A date \in DOMAIN busy_cache[idx] :
            /\ AscendingStarts(busy_cache[idx][date])
            /\ ProperIntervals(busy_cache[idx][date])

\* The intervals of a list share no minute with one another
PairwiseDisjoint(list) ==
    \A j \in DOMAIN list : \A k \in DOMAIN list :
        j < k => MinutesOf(list[j]) \cap MinutesOf(list[k]) = {}

\* C23: every list returned by _get_free_intervals, whatever the day bounds and
\* the busy intervals, consists of intervals that start before they end, are
\* in ascending chronological order and are pairwise disjoint.
C23_FreeListProperAscendingDisjoint ==
    call.op = "_get_free_intervals" =>
        /\ ProperIntervals(ret.value)
        /\ AscendingStarts(ret.value)
        /\ PairwiseDisjoint(ret.value)

-----------------------------------------------------------------------------
(* What a read changes *)

\* The cache holds an entry of the state before the step no longer, or holds
\* another one in its place
EntryLost ==
    \E idx \in DOMAIN busy_cache :
        idx \notin DOMAIN busy_cache' \/ busy_cache'[idx] # busy_cache[idx]

\* C24: a read (an interval query or a search) leaves the calendars, the holiday
\* policy and every cached entry as they are and adds entries only for stored
\* calendars it asked about; a read of a cached index is answered with the
\* cached entry; and an entry is lost only in a step that is not a read and not
\* a change of the holiday policy, that is through add_schedule or set_schedules.
C24_ReadsOnlyAddCacheEntries ==
    [][/\ call' # NoCall =>
            /\ schedules' = schedules
            /\ holiday_calendar' = holiday_calendar
            /\ custom_holidays' = custom_holidays
            /\ ~EntryLost
            /\ (DOMAIN busy_cache') \ (DOMAIN busy_cache) \subseteq ListedCalendars'
            /\ (call'.op = "_get_busy_intervals"
                /\ call'.schedule_index \in DOMAIN busy_cache)
                => ret'.value = busy_cache[call'.schedule_index]
       /\ EntryLost =>
            /\ call' = NoCall
            /\ holiday_calendar' = holiday_calendar
            /\ custom_holidays' = custom_holidays
      ]_vars

\* C24 witness: busy intervals were read for calendar 0 while the cache held
\* the entries of calendars 0 and 1, built by earlier reads
C24_Witness ==
    /\ call.op = "_get_busy_intervals"
    /\ call.schedule_index = 0
    /\ DOMAIN busy_cache = {0, 1}
    /\ ret.value = busy_cache[0]

-----------------------------------------------------------------------------
(* The greedy accumulation of find_window_by_volume *)

\* The positions of a list of intervals in non-increasing order of duration,
\* equal durations in list order
RECURSIVE ByDurationDesc(_, _)
ByDurationDesc(intervals, left) ==
    IF left = {} THEN <<>>
    ELSE LET widest == CHOOSE k \in left : \A j \in left :
                 \/ _interval_duration_minutes(intervals[k][1], intervals[k][2])
                      > _interval_duration_minutes(intervals[j][1], intervals[j][2])
                 \/ /\ _interval_duration_minutes(intervals[k][1], intervals[k][2])
                         = _interval_duration_minutes(intervals[j][1], intervals[j][2])
                    /\ k <= j
         IN  <<widest>> \o ByDurationDesc(intervals, left \ {widest})

\* The free intervals of the valid days of the horizon, day after day from
\* day-step n on, each day's in non-increasing order of duration; each is
\* <<date, start_time, duration>>
RECURSIVE Considered(_, _)
Considered(idx, n) ==
    IF n >= call.max_days_to_check THEN <<>>
    ELSE (IF RejectedByCall(AddDays(call.start_date, n)) THEN <<>>
          ELSE [p \in DOMAIN FreeOf(idx, AddDays(call.start_date, n)) |->
                  <<AddDays(call.start_date, n),
                    FreeOf(idx, AddDays(call.start_date, n))
                        [ByDurationDesc(FreeOf(idx, AddDays(call.start_date, n)),
                                        DOMAIN FreeOf(idx, AddDays(call.start_date, n)))[p]][1],
                    _interval_duration_minutes(
                        FreeOf(idx, AddDays(call.start_date, n))
                            [ByDurationDesc(FreeOf(idx, AddDays(call.start_date, n)),
                                            DOMAIN FreeOf(idx, AddDays(call.start_date, n)))[p]][1],
                        FreeOf(idx, AddDays(call.start_date, n))
                            [ByDurationDesc(FreeOf(idx, AddDays(call.start_date, n)),
                                            DOMAIN FreeOf(idx, AddDays(call.start_date, n)))[p]][2])>>])
         \o Considered(idx, n + 1)

\* The chunks taken from a list of considered intervals when `needed` minutes
\* are still needed: min(duration, needed) minutes from the start of each
\* interval for which that amount is at least min_width_minutes, none once
\* nothing is needed any more
RECURSIVE Greedy(_, _)
Greedy(considered, needed) ==
    IF considered = <<>> \/ needed <= 0 THEN <<>>
    ELSE IF Min2(Head(considered)[3], needed) >= call.min_width_minutes
         THEN <<[date |-> Head(considered)[1],
                 start_time |-> Head(considered)[2],
                 end_time |-> Head(considered)[2] + Min2(Head(considered)[3], needed),
                 duration_minutes |-> Min2(Head(considered)[3], needed)]>>
              \o Greedy(Tail(considered), needed - Min2(Head(considered)[3], needed))
    ELSE Greedy(Tail(considered), needed)

\* C25: the chunks of a result of find_window_by_volume are those of the greedy
\* rule: each valid day's free intervals in non-increasing order of duration,
\* min(duration, minutes still needed) taken from the start of an interval when
\* that is at least min_width_minutes, the interval skipped otherwise, and no
\* chunk taken once total_minutes is reached.
C25_VolumeChunksAreGreedy ==
    (call.op = "find_window_by_volume" /\ Found) =>
        ret.value.windows = Greedy(Considered(call.schedule_index, 0), call.total_minutes)

\* C25 witness: a result of several chunks of one day, the first from a longer
\* free interval that starts later than the second's
C25_Witness ==
    /\ call.op = "find_window_by_volume"
    /\ Found
    /\ Len(ret.value.windows) >= 2
    /\ ret.value.windows[1].date = ret.value.windows[2].date
    /\ ret.value.windows[1].start_time > ret.value.windows[2].start_time
    /\ ret.value.windows[1].duration_minutes > ret.value.windows[2].duration_minutes

-----------------------------------------------------------------------------
(* Custom holidays *)

\* The years the holiday test is looked at for
HolidayYears == {BaseYear - 1, BaseYear, BaseYear + 1}

\* The dates of those years that exist with a day and month
DatesOf(day, month) ==
    {<<y, month, day>> : y \in {yy \in HolidayYears : ValidDate(yy, month, day)}}

\* C26: every custom holiday (d, m) makes the date (y, m, d) a holiday in every
\* year y; a date that matches no custom holiday is a holiday only when the
\* region calendar holds that very date; and a search with
\* include_holidays = false returns no window on a custom holiday, also when
\* the holiday was added after the analyzer was built and had served reads.
C26_CustomHolidayEveryYear ==
    /\ \A dm \in custom_holidays : \A date \in DatesOf(dm[1], dm[2]) : _is_holiday(date)
    /\ \A region \in holiday_calendar : \A date \in DatesOf(region[3], region[2]) :
        (_is_holiday(date) /\ <<date[3], date[2]>> \notin custom_holidays)
            => date \in holiday_calendar
    /\ (call.op \in SearchOps /\ ~call.include_holidays /\ Found) =>
        \A k \in DOMAIN WindowsOf(ret.value) :
            <<WindowsOf(ret.value)[k].date[3], WindowsOf(ret.value)[k].date[2]>>
                \notin custom_holidays

\* C26 witness: after add_custom_holiday(27, 2) a search from Thursday 27
\* February without holidays stepped over that day, which has a fitting free
\* interval, and returned a window on the day after
C26_Witness ==
    /\ custom_holidays = {<<27, 2>>}
    /\ call.op = "find_nearest_window_by_width"
    /\ ~call.include_holidays
    /\ call.start_date = Thu
    /\ Fitting(call.schedule_index, Thu) # {}
    /\ Found
    /\ ret.value.date = Fri

-----------------------------------------------------------------------------
(* The totals of find_window_by_volume *)

\* The (date, minute) pairs the chunks of a result cover
CoveredMinutes(windows) ==
    UNION {{<<windows[k].date, m>> :
                m \in MinutesOf(<<windows[k].start_time, windows[k].end_time>>)} :
           k \in DOMAIN windows}

\* C27: in every result of find_window_by_volume the reported total_minutes is
\* the requested total_minutes, it is the number of distinct minutes the
\* returned chunks cover, and days_count is the number of distinct dates among
\* the chunks.
C27_VolumeTotalsExact ==
    (call.op = "find_window_by_volume" /\ Found) =>
        /\ ret.value.total_minutes = call.total_minutes
        /\ ret.value.total_minutes = Cardinality(CoveredMinutes(ret.value.windows))
        /\ ret.value.days_count
             = Cardinality({ret.value.windows[k].date : k \in DOMAIN ret.value.windows})

\* C28: find_window_by_volume is complete: when the free intervals of some
\* valid days of the horizon hold total_minutes in chunks of at least
\* min_width_minutes, one chunk per free interval, the search returns a result.
C28_VolumeFoundWhenPossible ==
    (call.op = "find_window_by_volume"
     /\ HasSchedule(call.schedule_index)
     /\ EnoughDays(call.schedule_index) # {}) => Found

(***************************************************************************)
(* _api_call_with_retry of ScheduleToYouGile and of YouGileToSchedule.     *)
(* The two classes carry the same helper; owner tells which one runs.      *)
(* One step is one attempt of the loop: the API method returns, or raises  *)
(* an exception whose message is a sequence of characters.                 *)
(***************************************************************************)

MaxRetries == 3

\* The two marks the helper looks for in str(e)
TooManyRequestsMark == <<"T", "o", "o", " ", "M", "a", "n", "y", " ", "R", "e", "q", "u", "e", "s", "t", "s">>
Code429Mark == <<"4", "2", "9">>

\* Messages the API can fail with: three that carry a mark (the last one only
\* by accident, inside an identifier) and two that carry none
ErrorMessages == { <<"4", "2", "9", " ", "T", "o", "o", " ", "M", "a", "n", "y", " ", "R", "e", "q", "u", "e", "s", "t", "s">>, <<"H", "T", "T", "P", " ", "4", "2", "9">>, <<"i", "d", " ", "1", "4", "2", "9", "0">>, <<"H", "T", "T", "P", " ", "5", "0", "0">>, <<"T", "o", "o", " ", "M", "a", "n", "y">> }

\* How an attempt, and the helper itself, can end
Returning(result) == [kind |-> "return", result |-> result]
Raising(message) == [kind |-> "raise", message |-> message]

\* Python's  sub in s  on strings
Contains(s, sub) == \E i \in 1..(Len(s) - Len(sub) + 1) : SubSeq(s, i, i + Len(sub) - 1) = sub

\* The test of the except branch
IsRateLimitMessage(error_message) == Contains(error_message, TooManyRequestsMark) \/ Contains(error_message, Code429Mark)

\* A loop that forgets the attempt budget
RetryWithoutLimit(retries, max_retries) == TRUE

\* The condition of the while loop, repeated before continue
MayRetry(retries, max_retries) == retries <= max_retries

\* The helper is entered: retries = 0 and last_exception = None.  With a
\* negative max_retries the loop body never runs and  raise None  is a TypeError.
ApiCallWithRetry(owner, max_retries) ==
    IF MayRetry(0, max_retries)
    THEN [owner |-> owner, max_retries |-> max_retries, retries |-> 0, last_exception |-> [kind |-> "none"], attempts |-> <<>>, status |-> "calling", value |-> [kind |-> "none"]]
    ELSE [owner |-> owner, max_retries |-> max_retries, retries |-> 0, last_exception |-> [kind |-> "none"], attempts |-> <<>>, status |-> "raised", value |-> Raising(<<"T", "y", "p", "e", "E", "r", "r", "o", "r">>)]

\* return api_method(*args, **kwargs)
ApiReturns ==
    /\ retry.status = "calling"
    /\ \E result \in {"dict", "list"} :
         retry' = [retry EXCEPT !.attempts = Append(@, Returning(result)), !.status = "returned", !.value = Returning(result)]
    /\ UNCHANGED <<schedules, holiday_calendar, custom_holidays, busy_cache, call, ret, threads, transfer>>

\* The except branch for a message with a mark: count the retry and go round
\* again (sleeping first), or leave the loop and raise last_exception
ApiRateLimited ==
    /\ retry.status = "calling"
    /\ \E e \in ErrorMessages :
         /\ IsRateLimitMessage(e)
         /\ retry' = IF MayRetry(retry.retries + 1, retry.max_retries)
                     THEN [retry EXCEPT !.attempts = Append(@, Raising(e)), !.last_exception = Raising(e), !.retries = @ + 1]
                     ELSE [retry EXCEPT !.attempts = Append(@, Raising(e)), !.last_exception = Raising(e), !.retries = @ + 1, !.status = "raised", !.value = Raising(e)]
    /\ UNCHANGED <<schedules, holiday_calendar, custom_holidays, busy_cache, call, ret, threads, transfer>>

\* The except branch for any other message: raise
ApiFails ==
    /\ retry.status = "calling"
    /\ \E e \in ErrorMessages :
         /\ ~IsRateLimitMessage(e)
         /\ retry' = [retry EXCEPT !.attempts = Append(@, Raising(e)), !.last_exception = Raising(e), !.status = "raised", !.value = Raising(e)]
    /\ UNCHANGED <<schedules, holiday_calendar, custom_holidays, busy_cache, call, ret, threads, transfer>>

InitRetry ==
    /\ schedules = <<>>
    /\ holiday_calendar = {}
    /\ custom_holidays = {}
    /\ busy_cache = EmptyDict
    /\ call = NoCall
    /\ ret = NoRet
    /\ threads = NoThreads
    /\ transfer = NoTransfer
    /\ \E owner \in {"ScheduleToYouGile", "YouGileToSchedule"}, max_retries \in (0 - 1)..MaxRetries : retry = ApiCallWithRetry(owner, max_retries)

NextRetry ==
    \/ ApiReturns
    \/ ApiRateLimited
    \/ ApiFails

SpecRetry == InitRetry /\ [][NextRetry]_vars

(***************************************************************************)
(* C29                                                                     *)
(***************************************************************************)

\* The API method was invoked once per recorded attempt
Invocations == Len(retry.attempts)

\* The attempts that succeeded
Successes == {i \in 1..Invocations : retry.attempts[i].kind = "return"}

\* The attempts that failed on a rate limit
RateLimitFailures == {i \in 1..Invocations : retry.attempts[i].kind = "raise" /\ (Contains(retry.attempts[i].message, TooManyRequestsMark) \/ Contains(retry.attempts[i].message, Code429Mark))}

\* The attempts that failed on anything else
OtherFailures == {i \in 1..Invocations : retry.attempts[i].kind = "raise" /\ ~Contains(retry.attempts[i].message, TooManyRequestsMark) /\ ~Contains(retry.attempts[i].message, Code429Mark)}

\* C29: _api_call_with_retry invokes the API method at most max_retries + 1
\* times; the first successful call ends it with that call's result; an error
\* whose message holds neither "Too Many Requests" nor "429" is re-raised at
\* once, nothing being attempted after it; and after max_retries + 1
\* rate-limit failures the last exception is raised and the loop is over.
C29_RetryIsBounded ==
    /\ Invocations <= retry.max_retries + 1
    /\ \A i \in Successes : i = Invocations /\ retry.status = "returned" /\ retry.value = retry.attempts[i]
    /\ \A i \in OtherFailures : i = Invocations /\ retry.status = "raised" /\ retry.value = retry.attempts[i]
    /\ Cardinality(RateLimitFailures) = retry.max_retries + 1 => (retry.status = "raised" /\ (Invocations > 0 => retry.value = retry.attempts[Invocations]))
    /\ retry.status = "calling" => (RateLimitFailures = 1..Invocations /\ Invocations <= retry.max_retries)

\* With max_retries = 2, three rate-limit failures in a row (the second one a
\* message that holds 429 inside an identifier) and the third exception raised
C29_Witness ==
    /\ retry.status = "raised"
    /\ retry.max_retries = 2
    /\ Cardinality(RateLimitFailures) = 3
    /\ retry.value = retry.attempts[3]
    /\ retry.attempts[2] = Raising(<<"i", "d", " ", "1", "4", "2", "9", "0">>)

(***************************************************************************)
(* ScheduleToYouGile: create_project, create_week_columns,                 *)
(* create_tasks_from_schedule and transfer_schedule.  Every request goes   *)
(* through _api_call_with_retry, which ends by returning the response (with *)
(* or without an 'id') or by raising.  created is what YouGile holds: one  *)
(* entry per object it was asked to create and did create, in order.       *)
(***************************************************************************)

MaxWeek == 1
MaxCreated == 6
MaxDayLessons == 2

\* None where an id is expected; YouGile's ids are positive
NoId == 0

\* How _api_call_with_retry can end for a create request
ApiOutcomes == {"id", "noid", "raise"}

\* The id YouGile gives to the next object
NextId(t) == Len(t.created) + 1

Created(kind, id, parent) == [kind |-> kind, id |-> id, parent |-> parent]

\* The object after __init__
NewTransfer == [project_id |-> NoId, board_id |-> NoId, column_ids |-> <<>>, created |-> <<>>, op |-> "__init__", raised |-> "none"]

\* A board is taken for granted
BoardNotChecked(t) == TRUE

\* not self.board_id  negated
HasBoard(t) == t.board_id # NoId

\* create_project: the project request, then the board request; a response
\* without an 'id' leaves None in the field
CreateProjectOp(t, o1, o2) ==
    IF o1 = "raise" THEN [t EXCEPT !.raised = "ApiError"]
    ELSE IF o2 = "raise"
         THEN [t EXCEPT !.project_id = IF o1 = "id" THEN NextId(t) ELSE NoId, !.created = Append(@, Created("project", NextId(t), NoId)), !.raised = "ApiError"]
         ELSE [t EXCEPT !.project_id = IF o1 = "id" THEN NextId(t) ELSE NoId, !.board_id = IF o2 = "id" THEN NextId(t) + 1 ELSE NoId, !.created = @ \o <<Created("project", NextId(t), NoId), Created("board", NextId(t) + 1, IF o1 = "id" THEN NextId(t) ELSE NoId)>>, !.raised = "none"]

\* The weeks whose column request came back, when the API fails after ok of them
WeeksDone(max_week, ok) == {week \in 0..max_week : week < ok}

\* create_week_columns: ValueError without a board, else one request per week
\* 0..max_week until one raises; the weeks in noid come back without an 'id'
CreateWeekColumnsOp(t, max_week, ok, noid) ==
    IF ~HasBoard(t) THEN [t EXCEPT !.raised = "ValueError"]
    ELSE [t EXCEPT !.column_ids = [week \in DOMAIN @ \cup WeeksDone(max_week, ok) |-> IF week \in WeeksDone(max_week, ok) THEN (IF week \in noid THEN NoId ELSE NextId(t) + week) ELSE @[week]],
                   !.created = @ \o [i \in 1..Cardinality(WeeksDone(max_week, ok)) |-> Created("column", NextId(t) + i - 1, t.board_id)],
                   !.raised = IF ok <= max_week THEN "ApiError" ELSE "none"]

\* The schedule files the transfer is run on.  A day record has its week,
\* whether _format_date gives a date ("ok"), None ("none") or raises ("bad"),
\* and per lesson whether _parse_time accepts its time
ScheduleFiles == { <<>>, <<[week |-> 0, date |-> "ok", lessons |-> <<TRUE>>]>>, <<[week |-> 1, date |-> "ok", lessons |-> <<TRUE, TRUE>>], [week |-> 0, date |-> "none", lessons |-> <<TRUE>>]>>, <<[week |-> MaxWeek + 1, date |-> "ok", lessons |-> <<TRUE>>], [week |-> 0, date |-> "ok", lessons |-> <<TRUE, FALSE>>]>>, <<[week |-> 0, date |-> "bad", lessons |-> <<TRUE>>]>> }

\* What the loop body does for the lessons of one day record, in order: a task
\* request, nothing (no date), or a ValueError
DayPlan(t, d) ==
    IF ~(d.week \in DOMAIN t.column_ids /\ t.column_ids[d.week] # NoId) THEN <<>>
    ELSE IF d.date = "bad" THEN <<[step |-> "raise", column_id |-> NoId]>>
    ELSE [i \in 1..Len(d.lessons) |-> IF ~d.lessons[i] THEN [step |-> "raise", column_id |-> NoId] ELSE IF d.date = "ok" THEN [step |-> "task", column_id |-> t.column_ids[d.week]] ELSE [step |-> "skip", column_id |-> NoId]]

RECURSIVE TaskPlan(_, _)
TaskPlan(t, schedule_data) == IF schedule_data = <<>> THEN <<>> ELSE DayPlan(t, Head(schedule_data)) \o TaskPlan(t, Tail(schedule_data))

\* The steps up to the first ValueError of _format_date or _parse_time
BeforeRaise(plan) == SubSeq(plan, 1, CHOOSE n \in 0..Len(plan) : (n = Len(plan) \/ plan[n + 1].step = "raise") /\ \A i \in 1..n : plan[i].step # "raise")

\* The loops of create_tasks_from_schedule: requests are the task requests made
\* if none raises, the API raises after ok of them, and a ValueError follows
\* them when stopped
RunTaskPlan(t, requests, stopped, ok) ==
    [t EXCEPT !.created = @ \o [i \in 1..(IF ok < Len(requests) THEN ok ELSE Len(requests)) |-> Created("task", NextId(t) + i - 1, requests[i].column_id)],
              !.raised = IF ok < Len(requests) THEN "ApiError" ELSE IF stopped THEN "ValueError" ELSE "none"]

\* create_tasks_from_schedule: ValueError without a board or without columns
CreateTasksFromScheduleOp(t, schedule_data, ok) ==
    IF ~HasBoard(t) \/ DOMAIN t.column_ids = {} THEN [t EXCEPT !.raised = "ValueError"]
    ELSE RunTaskPlan(t, SelectSeq(BeforeRaise(TaskPlan(t, schedule_data)), LAMBDA s : s.step = "task"), Len(BeforeRaise(TaskPlan(t, schedule_data))) < Len(TaskPlan(t, schedule_data)), ok)

RECURSIVE LastWeek(_)
LastWeek(schedule_data) == IF schedule_data = <<>> THEN 0 ELSE IF Head(schedule_data).week > LastWeek(Tail(schedule_data)) THEN Head(schedule_data).week ELSE LastWeek(Tail(schedule_data))

\* transfer_schedule: the three calls in a row, an exception ending it
TransferScheduleOp(t, schedule_data, o1, o2, okc, noid, okt) ==
    LET project == CreateProjectOp(t, o1, o2)
        columns == CreateWeekColumnsOp(project, LastWeek(schedule_data), okc, noid)
    IN  IF project.raised # "none" THEN project
        ELSE IF columns.raised # "none" THEN columns
        ELSE CreateTasksFromScheduleOp(columns, schedule_data, okt)

\* A call on the object leaves the analyzer and the retry frame alone
Called(op, t) ==
    /\ Len(transfer.created) < MaxCreated
    /\ transfer' = [t EXCEPT !.op = op]
    /\ UNCHANGED <<schedules, holiday_calendar, custom_holidays, busy_cache, call, ret, threads, retry>>

CreateProject ==
    \E o1 \in ApiOutcomes, o2 \in ApiOutcomes :
        Called("create_project", CreateProjectOp(transfer, o1, o2))

CreateWeekColumns ==
    \E max_week \in 0..MaxWeek :
        \E ok \in 0..(max_week + 1), noid \in SUBSET {0} :
            Called("create_week_columns", CreateWeekColumnsOp(transfer, max_week, ok, noid))

CreateTasksFromSchedule ==
    \E schedule_data \in ScheduleFiles, ok \in 0..(2 * MaxDayLessons) :
        Called("create_tasks_from_schedule", CreateTasksFromScheduleOp(transfer, schedule_data, ok))

TransferSchedule ==
    \E schedule_data \in ScheduleFiles, o1 \in ApiOutcomes, o2 \in ApiOutcomes :
        \E okc \in 0..(MaxWeek + 2), noid \in SUBSET {0}, okt \in 0..(2 * MaxDayLessons) :
            Called("transfer_schedule", TransferScheduleOp(transfer, schedule_data, o1, o2, okc, noid, okt))

InitTransfer ==
    /\ schedules = <<>>
    /\ holiday_calendar = {}
    /\ custom_holidays = {}
    /\ busy_cache = EmptyDict
    /\ call = NoCall
    /\ ret = NoRet
    /\ threads = NoThreads
    /\ retry = NoRetry
    /\ transfer = NewTransfer

NextTransfer ==
    \/ CreateProject
    \/ CreateWeekColumns
    \/ CreateTasksFromSchedule
    \/ TransferSchedule

SpecTransfer == InitTransfer /\ [][NextTransfer]_vars

(***************************************************************************)
(* C30                                                                     *)
(***************************************************************************)

\* Entry i of created has its parent, of the given kind, earlier in created
ParentBefore(i, kind) == \E j \in 1..(i - 1) : transfer.created[j].kind = kind /\ transfer.created[j].id = transfer.created[i].parent

\* In YouGile every column came after its board and every task after its column
CreatedInOrder ==
    \A i \in 1..Len(transfer.created) :
        /\ transfer.created[i].kind = "column" => ParentBefore(i, "board")
        /\ transfer.created[i].kind = "task" => ParentBefore(i, "column")

\* The call just made raised ValueError and created nothing
RefusedBy(before, after) == after.raised = "ValueError" /\ after.created = before.created /\ after.column_ids = before.column_ids /\ after.board_id = before.board_id

\* C30: create_week_columns raises ValueError and creates nothing unless
\* create_project has produced a board; create_tasks_from_schedule raises
\* ValueError and creates nothing unless the board and at least one week column
\* exist; so in every sequence of calls each column is created after its board
\* and each task after its week column.
C30_BoardThenColumnsThenTasks ==
    /\ []CreatedInOrder
    /\ [][ /\ (transfer'.op = "create_week_columns" /\ transfer.board_id = NoId) => RefusedBy(transfer, transfer')
           /\ (transfer'.op = "create_tasks_from_schedule" /\ (transfer.board_id = NoId \/ DOMAIN transfer.column_ids = {})) => RefusedBy(transfer, transfer') ]_vars

\* A task was created, in a column of a board that is no longer the current one
C30_Witness ==
    /\ transfer.op = "create_tasks_from_schedule"
    /\ \E i \in 1..Len(transfer.created) : transfer.created[i].kind = "task"
    /\ \E i \in 1..Len(transfer.created) : transfer.created[i].kind = "column" /\ transfer.created[i].parent # transfer.board_id

(***************************************************************************)
(* Searches running concurrently on one analyzer that nobody changes.      *)
(* The one object the threads share and write is the busy cache, so a      *)
(* thread's steps are its visits to it in _get_busy_intervals: the cache   *)
(* test with the fetch of the entry (lines 221-222), the test failing and  *)
(* the dictionary being built in a local (224-249), the assignment of the  *)
(* built dictionary (252).  The free intervals, their in-place sort by     *)
(* duration (620) and the windows are locals of the thread; view holds the *)
(* dictionaries _get_busy_intervals gave it.                               *)
(***************************************************************************)

MaxThreads == 2

\* The searches the threads run
ThreadCalls ==
    {[op |-> "find_window_by_volume", total_minutes |-> t, min_width_minutes |-> 30, schedule_index |-> i, start_date |-> Thu, include_weekends |-> TRUE, include_holidays |-> TRUE, deadline |-> NoDeadline, max_days_to_check |-> MaxDaysToCheck, min_start_hour |-> 9, max_end_hour |-> 11] : t \in Totals, i \in ScheduleIndexSet}
    \cup {[op |-> "find_common_window_for_multiple_schedules", width_minutes |-> 30, schedule_indices |-> l, start_date |-> Thu, include_weekends |-> TRUE, include_holidays |-> TRUE, deadline |-> NoDeadline, max_days_to_check |-> MaxDaysToCheck, min_start_hour |-> 9, max_end_hour |-> 11] : l \in {<<0, 1>>, <<1, 2, 0>>}}

\* The search c computed from the dictionaries in cache, those it lacks extracted
Search(cache, c) ==
    CASE c.op = "find_nearest_window_by_width" -> find_nearest_window_by_width(cache, c)
      [] c.op = "find_nearest_window_by_width_and_length" -> find_nearest_window_by_width_and_length(cache, c)
      [] c.op = "find_window_by_volume" -> find_window_by_volume(cache, c)
      [] c.op = "find_common_window_for_multiple_schedules" -> find_common_window_for_multiple_schedules(cache, c)

\* The indices the thread's search still has to ask _get_busy_intervals for
Pending(frame) == {i \in Search(frame.view, frame.c).read : HasSchedule(i)} \ DOMAIN frame.view

\* The cache with dictionary d under index i
WithEntry(cache, i, d) == [j \in (DOMAIN cache) \cup {i} |-> IF j = i THEN d ELSE cache[j]]

\* The dictionary under construction is put into the cache at once
CachePublishedAtMiss(cache, i) == WithEntry(cache, i, EmptyDict)

\* busy_intervals = {} is a local: the cache stays as it is while it is filled
CacheAtMiss(cache, i) == cache

\* schedule_index in self._busy_intervals holds: the entry is returned.  The
\* search calls again for every day, so an index it has may be fetched anew.
GetBusyHit(t) ==
    /\ threads[t].pc = "search"
    /\ \E i \in (DOMAIN busy_cache) \cap (Pending(threads[t]) \cup DOMAIN threads[t].view) :
         threads' = [threads EXCEPT ![t].view = WithEntry(@, i, busy_cache[i])]
    /\ UNCHANGED <<schedules, holiday_calendar, custom_holidays, busy_cache, call, ret, retry, transfer>>

\* The test fails: the thread sets out to build the dictionary
GetBusyMiss(t) ==
    /\ threads[t].pc = "search"
    /\ \E i \in Pending(threads[t]) \ DOMAIN busy_cache :
         /\ threads' = [threads EXCEPT ![t].pc = "build", ![t].index = i]
         /\ busy_cache' = CacheAtMiss(busy_cache, i)
    /\ UNCHANGED <<schedules, holiday_calendar, custom_holidays, call, ret, retry, transfer>>

\* self._busy_intervals[schedule_index] = busy_intervals, whatever is there by now
GetBusyStore(t) ==
    /\ threads[t].pc = "build"
    /\ busy_cache' = WithEntry(busy_cache, threads[t].index, ExtractBusy(schedules[threads[t].index + 1]))
    /\ threads' = [threads EXCEPT ![t].pc = "search",
                                  ![t].view = WithEntry(@, threads[t].index, ExtractBusy(schedules[threads[t].index + 1])),
                                  ![t].overwrote = @ \/ threads[t].index \in DOMAIN busy_cache]
    /\ UNCHANGED <<schedules, holiday_calendar, custom_holidays, call, ret, retry, transfer>>

\* The search has every dictionary it asks for and returns
SearchReturns(t) ==
    /\ threads[t].pc = "search"
    /\ Pending(threads[t]) = {}
    /\ threads' = [threads EXCEPT ![t].pc = "done", ![t].ret = [returned |-> TRUE, value |-> Search(threads[t].view, threads[t].c).result]]
    /\ UNCHANGED <<schedules, holiday_calendar, custom_holidays, busy_cache, call, ret, retry, transfer>>

InitThreads ==
    /\ schedules \in {l \in ScheduleLists : Len(l) >= 2}
    /\ holiday_calendar = {}
    /\ custom_holidays = {}
    /\ busy_cache = EmptyDict
    /\ call = NoCall
    /\ ret = NoRet
    /\ retry = NoRetry
    /\ transfer = NoTransfer
    /\ threads \in [1..MaxThreads -> {[c |-> c, pc |-> "search", index |-> 0, view |-> EmptyDict, overwrote |-> FALSE, ret |-> NoRet] : c \in ThreadCalls}]

NextThreads ==
    \E t \in 1..MaxThreads :
        \/ GetBusyHit(t)
        \/ GetBusyMiss(t)
        \/ GetBusyStore(t)
        \/ SearchReturns(t)

SpecThreads == InitThreads /\ [][NextThreads]_vars

(***************************************************************************)
(* C21                                                                     *)
(***************************************************************************)

\* The cache after the searches of threads t, t + 1, ... ran one after another
RECURSIVE CacheAfterThreads(_, _)
CacheAfterThreads(cache, t) ==
    IF t > MaxThreads THEN cache
    ELSE CacheAfterThreads(CacheAfterAll(cache, Search(cache, threads[t].c).read), t + 1)

AllReturned == \A t \in 1..MaxThreads : threads[t].pc = "done"

\* C21: searches that run concurrently on an analyzer nobody changes return,
\* under every interleaving, what each returns when run alone, and leave the
\* busy cache as a sequential run of them leaves it, also when two of them
\* fill the cache for the same index at the same time.
C21_ConcurrentSearchesAsAlone ==
    /\ \A t \in 1..MaxThreads : threads[t].pc = "done" => threads[t].ret.value = Search(EmptyDict, threads[t].c).result
    /\ AllReturned => busy_cache = CacheAfterThreads(EmptyDict, 1)

\* Both searches returned, one of them found a window next to lessons, and one
\* stored its dictionary over the one another thread had stored meanwhile
C21_Witness ==
    /\ AllReturned
    /\ \E t \in 1..MaxThreads : threads[t].overwrote
    /\ \E t \in 1..MaxThreads : threads[t].ret.value.found
    /\ \E i \in DOMAIN busy_cache : busy_cache[i] # EmptyDict

=============================================================================
